---- MODULE Spec2Model ----
(***************************************************************************)
(* StandBuilder: the matching, filtering, merge and deduplication pipeline *)
(* (app/src/lib/engine).  Strings are sequences of characters, a character *)
(* is a one-token string; a CJK character of the source is written as its  *)
(* pinyin token ("ye" "tai" for the two characters of the industry column  *)
(* header), which keeps one token per UTF-16 code unit of the source.      *)
(***************************************************************************)
EXTENDS Integers, Sequences, FiniteSets, TLC

VARIABLES
    \* Merger (ruleEngine.ts 136-274)
    mOptions,        \* this.options
    mStandards,      \* this.standards
    mInput,          \* the MergerInput handed to mergeResults
    mOutput,         \* what mergeResults returned
    mPc,             \* "start" before the call, "done" after it
    \* RuleEngine (ruleEngine.ts 19-111)
    rRules,          \* this.rules
    rInput,          \* the RuleEngineInput handed to matchRules
    rMatched,        \* what matchRules returned
    rPc,
    \* ContentFilter (filter.ts 16-157)
    fOptions,        \* this.options
    fContent,        \* content argument of filterContent
    fKeys,           \* keys argument
    fInput,          \* input argument
    fOutput,         \* what filterContent returned
    fPc,
    \* deduplicateContent (pages/Result.tsx 19-33)
    dContent,        \* content argument
    dOutput,         \* what deduplicateContent returned
    dPc,
    \* Result page, module generation (pages/Result.tsx 155-262)
    gAllSystems,     \* props.allSystems
    gConfig,         \* props.config
    gSystemsToExport,\* systemsToExport (the generatedList)
    gSourceCounts,   \* the sourceCounts of each generated module
    gPc,
    \* AIAdvisor.parseAIResponse (unnamed/part_001 290-316)
    pStandards,      \* this.standards
    pResponse,       \* response argument
    pResults,        \* what parseAIResponse returned
    pPc,
    \* AIAdvisor (unnamed/part_001 23-328)
    aConfig,         \* this.config
    aStandards,      \* this.standards
    aSemantics,      \* this.semantics
    aInput,          \* the AIAdvisorInput of the calls
    aShould,         \* what shouldUseAI returned
    aRequests,       \* the requests handed to fetch
    aFetched,        \* what fetch and response.json() settled with
    aResult,         \* the promise getRecommendations returned
    aPc,
    \* RuleEngine.getMatchedStandards (ruleEngine.ts 84-95)
    msStandards,     \* this.standards
    msResults,       \* results argument
    msReturned,      \* what getMatchedStandards returned
    msPc,
    \* normalizeString of ContentFilter (filter.ts 96-105) and of RuleEngine
    \* (ruleEngine.ts 76-81)
    nStr,            \* str argument
    nOptions,        \* this.options of the ContentFilter
    nFilterOut,      \* what ContentFilter.normalizeString returned
    nRuleOut,        \* what RuleEngine.normalizeString returned
    nPc,
    \* ContentFilter.calculateSimilarity (filter.ts 108-139)
    sStr1,           \* str1 argument
    sStr2,           \* str2 argument
    sScore,          \* what calculateSimilarity returned, as a fraction
    sPc,
    \* Exporter.generateCSVContent (exporter.ts 108-156)
    cItems,          \* items argument
    cConfig,         \* config argument
    cOutput,         \* how generateCSVContent ended: the string, or a throw
    cPc,
    \* VersionManager (exporter.ts 220-372)
    vRemote,         \* what the server holds at /meta/version.json
    vLocal,          \* the local meta/version.json
    vLocalStart,     \* the local meta/version.json when the update began
    vKb,             \* the knowledge-base files written by the update
    vIndex,          \* position of the for loop in remoteVersion.files
    vResult,         \* the promise updateKnowledgeBase returned
    vFailure,        \* the step that threw, "none" for none
    vCheck,          \* the later checkForUpdates: its fetch and its result
    vPc,
    \* App (App.tsx 7-68)
    appView,         \* useState 'home' | 'result'
    appIsConfigOpen, \* useState isConfigOpen
    appConfig,       \* useState config, NullConfig for null
    appAllSystems,   \* useState allSystems
    appLoading,      \* useState loading
    appLast,         \* the handler that ran last, "none" before any
    appPc,           \* the useEffect fetch: "fetching" until it settles
    \* parseSemanticDescriptions (exporter.ts 451-504)
    semLines,        \* content.split('\n')
    semOutput,       \* the descriptions returned
    semPc

mergerVars == <<mOptions, mStandards, mInput, mOutput, mPc>>
ruleVars   == <<rRules, rInput, rMatched, rPc>>
filterVars == <<fOptions, fContent, fKeys, fInput, fOutput, fPc>>
dedupVars  == <<dContent, dOutput, dPc>>
genVars    == <<gAllSystems, gConfig, gSystemsToExport, gSourceCounts, gPc>>
parseVars  == <<pStandards, pResponse, pResults, pPc>>
advisorVars ==
    <<aConfig, aStandards, aSemantics, aInput, aShould, aRequests, aFetched, aResult, aPc>>
matchedVars == <<msStandards, msResults, msReturned, msPc>>
normVars   == <<nStr, nOptions, nFilterOut, nRuleOut, nPc>>
simVars    == <<sStr1, sStr2, sScore, sPc>>
csvVars    == <<cItems, cConfig, cOutput, cPc>>
versionVars ==
    <<vRemote, vLocal, vLocalStart, vKb, vIndex, vResult, vFailure, vCheck, vPc>>
appVars    ==
    <<appView, appIsConfigOpen, appConfig, appAllSystems, appLoading, appLast, appPc>>
semVars    == <<semLines, semOutput, semPc>>
vars       ==
    <<mergerVars, ruleVars, filterVars, dedupVars, genVars, parseVars, advisorVars,
      matchedVars, normVars, simVars, csvVars, versionVars, appVars, semVars>>

(***************************************************************************)
(* Bounds of the model                                                     *)
(***************************************************************************)
MaxResults == 3      \* entries of ruleResults ++ aiResults ++ manualResults
MaxRules   == 2      \* rules of a rule set
MaxDedupRows == 3    \* rows handed to deduplicateContent
MaxSystems == 2      \* systems of allSystems
MaxLines   == 3      \* lines of an AI response
MaxExisting == 5     \* entries of existingStandards
MaxRows    == 2      \* rows of a table
MaxFiles   == 2      \* files listed by a remote version
MaxSemLines == 4     \* lines of semantic_descriptions.md
MaxItems   == 2      \* items handed to the exporter
MaxChars   == 3      \* characters of a string handed to a string function

(***************************************************************************)
(* Generic helpers                                                         *)
(***************************************************************************)
Undefined == "undefined"

SeqsUpTo(S, n) == UNION {[1..k -> S] : k \in 0..n}

Range(s) == {s[i] : i \in 1..Len(s)}

\* Array.prototype.findIndex / find: the first position whose test holds,
\* 0 for none; hits is the sequence of the test's results.
FirstTrue(hits) ==
    IF \E i \in 1..Len(hits) : hits[i]
    THEN CHOOSE i \in 1..Len(hits) : hits[i] /\ \A j \in 1..(i - 1) : ~hits[j]
    ELSE 0

\* results.findIndex(r => r.standard_id === id)
IndexOfId(results, id) ==
    FirstTrue([i \in 1..Len(results) |-> results[i].standard_id = id])

(***************************************************************************)
(* Strings: sequences of characters                                        *)
(***************************************************************************)
\* The characters the regular expression class \s matches (and trim strips).
Whitespace == {" ", "\t", "\n", "\r"}

\* The class [\s\-\_]
Separators == Whitespace \cup {"-", "_"}

\* String.prototype.toLowerCase, one character.
LowerChar(c) ==
    CASE c = "A" -> "a"
      [] c = "B" -> "b"
      [] c = "T" -> "t"
      [] OTHER   -> c

toLowerCase(str) == [i \in 1..Len(str) |-> LowerChar(str[i])]

RECURSIVE TrimStart(_)
TrimStart(str) ==
    IF str # <<>> /\ Head(str) \in Whitespace THEN TrimStart(Tail(str)) ELSE str

RECURSIVE TrimEnd(_)
TrimEnd(str) ==
    IF str # <<>> /\ str[Len(str)] \in Whitespace
    THEN TrimEnd(SubSeq(str, 1, Len(str) - 1))
    ELSE str

\* String.prototype.trim
trim(str) == TrimEnd(TrimStart(str))

RECURSIVE DropRun(_, _)
DropRun(str, class) ==
    IF str # <<>> /\ Head(str) \in class THEN DropRun(Tail(str), class) ELSE str

\* str.replace(/[class]+/g, ' '): every maximal run of characters of the
\* class becomes one space.
RECURSIVE ReplaceRuns(_, _)
ReplaceRuns(str, class) ==
    IF str = <<>> THEN <<>>
    ELSE IF Head(str) \in class
         THEN <<" ">> \o ReplaceRuns(DropRun(Tail(str), class), class)
         ELSE <<Head(str)>> \o ReplaceRuns(Tail(str), class)

\* String.prototype.includes: needle occurs in str as a contiguous run.
includes(str, needle) ==
    \E i \in 0..(Len(str) - Len(needle)) :
        SubSeq(str, i + 1, i + Len(needle)) = needle

(***************************************************************************)
(* MatchResult (ruleEngine.ts 11-16) and the catalog                       *)
(***************************************************************************)
StandardIds == {"A", "B"}
RuleIds     == {"R1", "R2"}
Sources     == {"rule", "ai", "manual"}

\* A StandardItem of the catalog (loader's StandardItem: id and type are
\* what the engine reads).
ItemA == [standard_id |-> "A", standard_type |-> "QC"]
ItemB == [standard_id |-> "B", standard_type |-> "SAFE"]

\* What find() yields when no catalog item has the id.
NoStandard == [standard_id |-> Undefined, standard_type |-> Undefined]

MkResult(id, src, rid, why) ==
    [standard_id |-> id, source |-> src, rule_id |-> rid, reason |-> why]

\* The MatchResults the three layers produce: a rule match carries its
\* rule, an AI match a parsed reason, a manual one neither; a list may
\* carry any of them (the type of the three lists is the same).
ResultPool ==
    {MkResult(id, "rule", r, "match " \o r) : id \in StandardIds, r \in RuleIds}
    \cup {MkResult(id, "ai", Undefined, "fits") : id \in StandardIds}
    \cup {MkResult(id, "manual", Undefined, Undefined) : id \in StandardIds}

(***************************************************************************)
(* Merger                                                                  *)
(***************************************************************************)
\* Mutant: the table ranks an AI match above a rule match.
priorityAIOverRule(source) ==
    CASE source = "rule"   -> 2
      [] source = "ai"     -> 3
      [] source = "manual" -> 1

\* The priority table of deduplicateResults and sortResults.
priority(source) ==
    CASE source = "rule"   -> 3
      [] source = "ai"     -> 2
      [] source = "manual" -> 1

\* String.prototype.localeCompare on standard ids: the ids of the model
\* collate in alphabetical order.
localeCompare(a, b) ==
    LET rank(x) == CASE x = "A" -> 1 [] x = "B" -> 2 [] OTHER -> 3
    IN  rank(a) - rank(b)

\* Mutant: a later duplicate of equal priority replaces the kept entry.
DedupStepLastWins(acc, result, prioritizeRules) ==
    IF result.standard_id \notin acc.seen
    THEN [unique |-> Append(acc.unique, result),
          seen   |-> acc.seen \cup {result.standard_id}]
    ELSE LET existingIndex ==
                 IndexOfId(acc.unique, result.standard_id)
         IN  IF priority(result.source) >= priority(acc.unique[existingIndex].source)
             THEN [acc EXCEPT !.unique[existingIndex] = result]
             ELSE acc

\* Mutant: the duplicate check is dropped, every entry is pushed.
DedupStepKeepAll(acc, result, prioritizeRules) ==
    [unique |-> Append(acc.unique, result),
     seen   |-> acc.seen \cup {result.standard_id}]

\* One step of the forEach of deduplicateResults: acc is
\* [unique |-> uniqueResults, seen |-> seenStandardIds].
DedupStep(acc, result, prioritizeRules) ==
    IF result.standard_id \notin acc.seen
    THEN [unique |-> Append(acc.unique, result),
          seen   |-> acc.seen \cup {result.standard_id}]
    ELSE IF prioritizeRules
    THEN LET existingIndex ==
                 IndexOfId(acc.unique, result.standard_id)
         IN  IF existingIndex # 0
                /\ priority(result.source) > priority(acc.unique[existingIndex].source)
             THEN [acc EXCEPT !.unique[existingIndex] = result]
             ELSE acc
    ELSE acc

RECURSIVE DedupLoop(_, _, _)
DedupLoop(acc, results, prioritizeRules) ==
    IF results = <<>> THEN acc
    ELSE DedupLoop(DedupStep(acc, Head(results), prioritizeRules),
                   Tail(results), prioritizeRules)

deduplicateResults(results, options) ==
    DedupLoop([unique |-> <<>>, seen |-> {}], results, options.prioritizeRules).unique

\* Mutant: the tie-break on standard_id is dropped.
SortCompareNoTieBreak(a, b) ==
    priority(b.source) - priority(a.source)

\* The comparator of sortResults: negative when a sorts before b.
SortCompare(a, b) ==
    LET priorityDiff == priority(b.source) - priority(a.source)
    IN  IF priorityDiff # 0 THEN priorityDiff
        ELSE localeCompare(a.standard_id, b.standard_id)

\* Array.prototype.sort is a stable comparison sort: insertion of each
\* element after the elements that do not compare greater than it.
RECURSIVE SortInsert(_, _)
SortInsert(sorted, x) ==
    IF sorted = <<>> THEN <<x>>
    ELSE IF SortCompare(x, Head(sorted)) < 0 THEN <<x>> \o sorted
         ELSE <<Head(sorted)>> \o SortInsert(Tail(sorted), x)

RECURSIVE SortLoop(_, _)
SortLoop(sorted, rest) ==
    IF rest = <<>> THEN sorted
    ELSE SortLoop(SortInsert(sorted, Head(rest)), Tail(rest))

sortResults(results) == SortLoop(<<>>, results)

\* this.standards.find(s => s.standard_id === id)
FindStandard(standards, id) ==
    LET i == IndexOfId(standards, id)
    IN  IF i = 0 THEN NoStandard ELSE standards[i]

\* Mutant: an entry whose id no catalog item carries is dropped.
RECURSIVE AttachStandardResolvedOnly(_, _)
AttachStandardResolvedOnly(standards, results) ==
    IF results = <<>> THEN <<>>
    ELSE (IF IndexOfId(standards, Head(results).standard_id) = 0 THEN <<>>
          ELSE <<[standard_id |-> Head(results).standard_id,
                  source      |-> Head(results).source,
                  rule_id     |-> Head(results).rule_id,
                  reason      |-> Head(results).reason,
                  standard    |-> FindStandard(standards, Head(results).standard_id)]>>)
         \o AttachStandardResolvedOnly(standards, Tail(results))

\* The last step of mergeResults: {...result, standard}.
AttachStandard(standards, results) ==
    [i \in 1..Len(results) |->
        [standard_id |-> results[i].standard_id,
         source      |-> results[i].source,
         rule_id     |-> results[i].rule_id,
         reason      |-> results[i].reason,
         standard    |-> FindStandard(standards, results[i].standard_id)]]

mergeResults(input, options, standards) ==
    LET all     == input.ruleResults \o input.aiResults \o input.manualResults
        deduped == IF options.deduplicate THEN deduplicateResults(all, options) ELSE all
        ordered == IF options.prioritizeRules THEN sortResults(deduped) ELSE deduped
    IN  AttachStandard(standards, ordered)

\* The constructor's defaults (ruleEngine.ts 141-146).
DefaultMergerOptions ==
    [prioritizeRules |-> TRUE, deduplicate |-> TRUE, includeSources |-> TRUE]

MergerOptionsPool ==
    {[prioritizeRules |-> p, deduplicate |-> d, includeSources |-> TRUE] :
        p \in BOOLEAN, d \in BOOLEAN}

CatalogPool == {<<ItemA>>, <<ItemA, ItemB>>}

EmptyMergerInput == [ruleResults |-> <<>>, aiResults |-> <<>>, manualResults |-> <<>>]

MergerInit ==
    /\ mOptions \in MergerOptionsPool
    /\ mStandards \in CatalogPool
    /\ \E all \in SeqsUpTo(ResultPool, MaxResults) :
         \E i \in 0..Len(all) : \E j \in i..Len(all) :
            mInput = [ruleResults   |-> SubSeq(all, 1, i),
                      aiResults     |-> SubSeq(all, i + 1, j),
                      manualResults |-> SubSeq(all, j + 1, Len(all))]
    /\ mOutput = <<>>
    /\ mPc = "start"

MergerIdle ==
    /\ mOptions = DefaultMergerOptions
    /\ mStandards = <<>>
    /\ mInput = EmptyMergerInput
    /\ mOutput = <<>>
    /\ mPc = "start"

MergeResults ==
    /\ mPc = "start"
    /\ mOutput' = mergeResults(mInput, mOptions, mStandards)
    /\ mPc' = "done"
    /\ UNCHANGED <<mOptions, mStandards, mInput>>
    /\ UNCHANGED <<ruleVars, filterVars, dedupVars, genVars, parseVars, advisorVars,
                 matchedVars, normVars, simVars, csvVars, versionVars, appVars, semVars>>

(***************************************************************************)
(* RuleEngine                                                              *)
(***************************************************************************)
EmptyProfile == [industries |-> <<>>, projectTypes |-> <<>>]

\* RuleEngine.normalizeString
RuleNormalizeString(str) ==
    ReplaceRuns(ReplaceRuns(trim(toLowerCase(str)), Whitespace), Separators)

\* Mutant: the two axes are joined by || instead of &&.
doesRuleMatchEitherAxis(rule, input) ==
    LET industryMatch ==
            \/ Len(rule.industry) = 0
            \/ \E i \in 1..Len(rule.industry) : \E j \in 1..Len(input.industries) :
                  RuleNormalizeString(rule.industry[i])
                      = RuleNormalizeString(input.industries[j])
        projectTypeMatch ==
            \/ Len(rule.project_type) = 0
            \/ \E i \in 1..Len(rule.project_type) : \E j \in 1..Len(input.projectTypes) :
                  RuleNormalizeString(rule.project_type[i])
                      = RuleNormalizeString(input.projectTypes[j])
    IN  industryMatch \/ projectTypeMatch

\* RuleEngine.doesRuleMatch
doesRuleMatch(rule, input) ==
    LET industryMatch ==
            \/ Len(rule.industry) = 0
            \/ \E i \in 1..Len(rule.industry) : \E j \in 1..Len(input.industries) :
                  RuleNormalizeString(rule.industry[i])
                      = RuleNormalizeString(input.industries[j])
        projectTypeMatch ==
            \/ Len(rule.project_type) = 0
            \/ \E i \in 1..Len(rule.project_type) : \E j \in 1..Len(input.projectTypes) :
                  RuleNormalizeString(rule.project_type[i])
                      = RuleNormalizeString(input.projectTypes[j])
    IN  industryMatch /\ projectTypeMatch

\* Mutant: the seen-id set is scoped to one rule, not to the whole pass.
IncludeStepPerRule(acc, rule, standardId) ==
    IF \E i \in 1..Len(acc.matched) :
          /\ acc.matched[i].standard_id = standardId
          /\ acc.matched[i].rule_id = rule.rule_id
    THEN acc
    ELSE [matched |-> Append(acc.matched,
                         MkResult(standardId, "rule", rule.rule_id,
                                  "match " \o rule.rule_id)),
          seen    |-> acc.seen \cup {standardId}]

\* The body of the inner forEach of matchRules: acc is
\* [matched |-> matched, seen |-> matchedStandardIds].
IncludeStep(acc, rule, standardId) ==
    IF standardId \notin acc.seen
    THEN [matched |-> Append(acc.matched,
                         MkResult(standardId, "rule", rule.rule_id,
                                  "match " \o rule.rule_id)),
          seen    |-> acc.seen \cup {standardId}]
    ELSE acc

RECURSIVE IncludeLoop(_, _, _)
IncludeLoop(acc, rule, ids) ==
    IF ids = <<>> THEN acc
    ELSE IncludeLoop(IncludeStep(acc, rule, Head(ids)), rule, Tail(ids))

RECURSIVE RuleLoop(_, _, _)
RuleLoop(acc, rules, input) ==
    IF rules = <<>> THEN acc
    ELSE RuleLoop(IF doesRuleMatch(Head(rules), input)
                  THEN IncludeLoop(acc, Head(rules), Head(rules).include_standard_ids)
                  ELSE acc,
                  Tail(rules), input)

\* RuleEngine.matchRules
matchRules(rules, input) ==
    RuleLoop([matched |-> <<>>, seen |-> {}], rules, input).matched

\* Field values of the model: the two characters of "residential" and of
\* "commercial", and Latin type codes that differ only in case and
\* separators.
Zhuzhai       == <<"zhu", "zhai">>
ZhuzhaiPadded == <<" ", "zhu", "zhai", " ">>
Shangye       == <<"shang", "ye">>
TypeHyphenA   == <<"T", "-", "A">>
TypeSpaceA    == <<"t", " ", "a">>
TypeUnderB    == <<"T", "_", "b">>

RulePool ==
    {[rule_id |-> r, industry |-> ind, project_type |-> pt, include_standard_ids |-> inc] :
        r   \in RuleIds,
        ind \in {<<>>, <<Shangye, ZhuzhaiPadded>>},
        pt  \in {<<>>, <<TypeHyphenA>>},
        inc \in {<<"A", "B">>, <<"B", "B">>}}

RuleProfilePool ==
    {[industries |-> ind, projectTypes |-> pt] :
        ind \in {<<>>, <<Zhuzhai>>, <<Shangye>>},
        pt  \in {<<>>, <<TypeUnderB, TypeSpaceA>>, <<TypeUnderB>>}}

RuleInit ==
    /\ rRules \in SeqsUpTo(RulePool, MaxRules)
    /\ rInput \in RuleProfilePool
    /\ rMatched = <<>>
    /\ rPc = "start"

RuleIdle ==
    /\ rRules = <<>>
    /\ rInput = EmptyProfile
    /\ rMatched = <<>>
    /\ rPc = "start"

MatchRules ==
    /\ rPc = "start"
    /\ rMatched' = matchRules(rRules, rInput)
    /\ rPc' = "done"
    /\ UNCHANGED <<rRules, rInput>>
    /\ UNCHANGED <<mergerVars, filterVars, dedupVars, genVars, parseVars, advisorVars,
                 matchedVars, normVars, simVars, csvVars, versionVars, appVars, semVars>>

(***************************************************************************)
(* ContentFilter                                                           *)
(***************************************************************************)
\* fuzzyMatchThreshold is kept in tenths (0.7 -> 7): with strings shorter
\* than ten characters 1 - d/m is never within rounding of 0.7 unless the
\* exact values differ, so the comparison on floats is the exact one.
DefaultFuzzyMatchThreshold == 7

\* The constructor's defaults (filter.ts 20-25).
DefaultFilterOptions ==
    [caseSensitive |-> FALSE, exactMatch |-> FALSE,
     fuzzyMatchThreshold |-> DefaultFuzzyMatchThreshold]

\* ContentFilter.normalizeString
normalizeString(str, options) ==
    LET cased == IF ~options.caseSensitive THEN toLowerCase(str) ELSE str
    IN  ReplaceRuns(ReplaceRuns(trim(cased), Whitespace), Separators)

\* Mutant: the deletion term is left out of the minimum.
Min3NoDeletion(a, b, c) == IF a <= b THEN a ELSE b

Min3(a, b, c) ==
    IF a <= b /\ a <= c THEN a ELSE IF b <= c THEN b ELSE c

\* One row of the matrix of calculateSimilarity: row i (a character of
\* str2) from row i-1; rows are kept 1-based, row[j + 1] = matrix[i][j].
RECURSIVE MatrixRow(_, _, _, _, _)
MatrixRow(prev, cur, str1, ch, j) ==
    IF j > Len(str1) THEN cur
    ELSE MatrixRow(prev,
                   Append(cur,
                          IF ch = str1[j] THEN prev[j]
                          ELSE Min3(prev[j] + 1, cur[j] + 1, prev[j + 1] + 1)),
                   str1, ch, j + 1)

RECURSIVE MatrixRows(_, _, _, _)
MatrixRows(prev, str1, str2, i) ==
    IF i > Len(str2) THEN prev
    ELSE MatrixRows(MatrixRow(prev, <<i>>, str1, str2[i], 1), str1, str2, i + 1)

\* matrix[str2.length][str1.length]
LevenshteinDistance(str1, str2) ==
    MatrixRows([j \in 1..(Len(str1) + 1) |-> j - 1], str1, str2, 1)[Len(str1) + 1]

\* ContentFilter.calculateSimilarity, as the fraction num/den.
calculateSimilarity(str1, str2) ==
    LET distance  == LevenshteinDistance(str1, str2)
        maxLength == IF Len(str1) >= Len(str2) THEN Len(str1) ELSE Len(str2)
    IN  IF maxLength = 0 THEN [num |-> 1, den |-> 1]
        ELSE [num |-> maxLength - distance, den |-> maxLength]

\* similarity >= threshold, the threshold in tenths
AtLeast(similarity, tenths) == 10 * similarity.num >= tenths * similarity.den

\* ContentFilter.doesValueMatch
doesValueMatch(value, filters, options) ==
    LET normalizedValue == normalizeString(value, options)
    IN  \E k \in 1..Len(filters) :
            LET normalizedFilter == normalizeString(filters[k], options)
            IN  IF options.exactMatch
                THEN normalizedValue = normalizedFilter
                ELSE \/ includes(normalizedValue, normalizedFilter)
                     \/ AtLeast(calculateSimilarity(normalizedValue, normalizedFilter),
                                options.fuzzyMatchThreshold)

\* The keyword lists of filterContent (filter.ts 36-37).
IndustryKeywords ==
    << <<"ye", "tai">>, <<"chan", "ye">>, <<"hang", "ye">>,
       <<"xiang", "mu", "lei", "xing">>, <<"shi", "yong", "fan", "wei">> >>

ProjectTypeKeywords ==
    << <<"xiang", "mu", "lei", "xing">>, <<"gong", "cheng", "lei", "xing">>,
       <<"lei", "xing">>, <<"xin", "jian">>, <<"gai", "kuo", "jian">> >>

\* No key: what keys.find yields when nothing matches.
NoKey == <<>>

\* ContentFilter.findRelevantColumn
findRelevantColumn(keys, keywords, options) ==
    LET relevant(key) ==
            \E k \in 1..Len(keywords) :
                includes(normalizeString(key, options), normalizeString(keywords[k], options))
        i == FirstTrue([n \in 1..Len(keys) |-> relevant(keys[n])])
    IN  IF i = 0 THEN NoKey ELSE keys[i]

\* A cell: [kind, text], text what String(cell) yields.  A row is the
\* sequence of its <<key, cell>> pairs in insertion order.
UndefinedCell == [kind |-> "undefined", text |-> <<"undefined">>]
StringCell(text) == [kind |-> "string", text |-> text]

\* row[key]
RowGet(row, key) ==
    LET i == FirstTrue([n \in 1..Len(row) |-> row[n][1] = key])
    IN  IF i = 0 THEN UndefinedCell ELSE row[i][2]

\* String(cell || ""): a falsy cell (undefined, the empty string) reads "".
CellOrEmpty(cell) ==
    IF cell.kind = "undefined" \/ (cell.kind = "string" /\ cell.text = <<>>)
    THEN <<>>
    ELSE cell.text

\* Mutant: the blank test is left out, a blank cell is matched like any
\* other value.
RowPassesAxisIgnoringBlank(row, key, filters, options) ==
    key # NoKey => doesValueMatch(CellOrEmpty(RowGet(row, key)), filters, options)

\* One axis of the row predicate of filterContent (filter.ts 48-53, 56-61).
RowPassesAxis(row, key, filters, options) ==
    key # NoKey =>
        LET val == CellOrEmpty(RowGet(row, key))
        IN  ~(val # <<>> /\ ~doesValueMatch(val, filters, options))

\* Mutant: a row that passes is put after the rows that follow it.
RECURSIVE FilterRowsReversed(_, _, _, _, _)
FilterRowsReversed(content, industryKey, projectTypeKey, filters, options) ==
    IF content = <<>> THEN <<>>
    ELSE LET row  == Head(content)
             rest == FilterRowsReversed(Tail(content), industryKey, projectTypeKey,
                                        filters, options)
         IN  IF /\ RowPassesAxis(row, industryKey, filters, options)
                /\ RowPassesAxis(row, projectTypeKey, filters, options)
             THEN rest \o <<row>>
             ELSE rest

RECURSIVE FilterRows(_, _, _, _, _)
FilterRows(content, industryKey, projectTypeKey, filters, options) ==
    IF content = <<>> THEN <<>>
    ELSE LET row  == Head(content)
             rest == FilterRows(Tail(content), industryKey, projectTypeKey, filters, options)
         IN  IF /\ RowPassesAxis(row, industryKey, filters, options)
                /\ RowPassesAxis(row, projectTypeKey, filters, options)
             THEN <<row>> \o rest
             ELSE rest

\* Mutant: the early return for an empty profile is left out.
filterContentNoEarlyReturn(content, keys, input, options) ==
    LET industryKey    == findRelevantColumn(keys, IndustryKeywords, options)
        projectTypeKey == findRelevantColumn(keys, ProjectTypeKeywords, options)
        filters        == input.industries \o input.projectTypes
    IN  IF industryKey = NoKey /\ projectTypeKey = NoKey THEN content
        ELSE FilterRows(content, industryKey, projectTypeKey, filters, options)

\* ContentFilter.filterContent
filterContent(content, keys, input, options) ==
    IF Len(input.industries) = 0 /\ Len(input.projectTypes) = 0 THEN content
    ELSE LET industryKey    == findRelevantColumn(keys, IndustryKeywords, options)
             projectTypeKey == findRelevantColumn(keys, ProjectTypeKeywords, options)
             filters        == input.industries \o input.projectTypes
         IN  IF industryKey = NoKey /\ projectTypeKey = NoKey THEN content
             ELSE FilterRows(content, industryKey, projectTypeKey, filters, options)

\* Column keys of the model: name, industry, construction type (the
\* columns the rows carry) and project type, a header the rows do not
\* carry under that name.
KeyName      == <<"ming", "cheng">>
KeyIndustry  == <<"ye", "tai">>
KeyWorkType  == <<"gong", "cheng", "lei", "xing">>
KeyProjType  == <<"xiang", "mu", "lei", "xing">>

\* Cell texts: "universal", "new build", a whitespace-only cell, and a
\* four-character prefix of the five-character "commercial complex".
Tongyong       == <<"tong", "yong">>
Xinjian        == <<"xin", "jian">>
Blanks         == <<" ">>
ShangyeZonghe  == <<"shang", "ye", "zong", "he">>
ShangyeZongheti == <<"shang", "ye", "zong", "he", "ti">>

IndustryCells == {<<>>, Tongyong, Xinjian, Blanks, ShangyeZonghe}
TypeCells     == {<<>>, Xinjian}

\* The rows of a table: every row carries the same three columns.
RowPool ==
    {<< <<KeyName, StringCell(<<"X">>)>>,
        <<KeyIndustry, StringCell(ind)>>,
        <<KeyWorkType, StringCell(typ)>> >> :
        ind \in IndustryCells, typ \in TypeCells}

\* The keys handed to filterContent: all, some or none of the applicability
\* columns are named, and a key may name a column the rows do not carry.
KeysPool ==
    {<<KeyName>>, <<KeyName, KeyIndustry>>, <<KeyName, KeyProjType>>,
     <<KeyName, KeyIndustry, KeyWorkType>>}

FilterProfilePool ==
    {[industries |-> ind, projectTypes |-> pt] :
        ind \in {<<>>, <<Shangye>>, <<Zhuzhai, ShangyeZongheti>>},
        pt  \in {<<>>, <<Xinjian>>}}

FilterInit ==
    /\ fOptions = DefaultFilterOptions
    /\ fContent \in SeqsUpTo(RowPool, MaxRows)
    /\ fKeys \in KeysPool
    /\ fInput \in FilterProfilePool
    /\ fOutput = <<>>
    /\ fPc = "start"

FilterIdle ==
    /\ fOptions = DefaultFilterOptions
    /\ fContent = <<>>
    /\ fKeys = <<>>
    /\ fInput = EmptyProfile
    /\ fOutput = <<>>
    /\ fPc = "start"

FilterContent ==
    /\ fPc = "start"
    /\ fOutput' = filterContent(fContent, fKeys, fInput, fOptions)
    /\ fPc' = "done"
    /\ UNCHANGED <<fOptions, fContent, fKeys, fInput>>
    /\ UNCHANGED <<mergerVars, ruleVars, dedupVars, genVars, parseVars, advisorVars,
                 matchedVars, normVars, simVars, csvVars, versionVars, appVars, semVars>>

(***************************************************************************)
(* Result page: deduplicateContent (pages/Result.tsx 19-33)                *)
(***************************************************************************)
Pipe == "|"

\* Object.values(row): the cells in insertion order.
ObjectValues(row) == [n \in 1..Len(row) |-> row[n][2]]

\* parts.join(sep)
RECURSIVE Join(_, _)
Join(parts, sep) ==
    IF parts = <<>> THEN <<>>
    ELSE IF Len(parts) = 1 THEN parts[1]
    ELSE parts[1] \o sep \o Join(Tail(parts), sep)

\* Object.values(row).map(v => String(v).trim()).join('|')
signature(row) ==
    LET values == ObjectValues(row)
    IN  Join([n \in 1..Len(values) |-> trim(values[n].text)], <<Pipe>>)

\* Mutant: a hit forgets the signature, the next row of that signature is
\* kept again.
RECURSIVE DedupFilterForgetOnHit(_, _)
DedupFilterForgetOnHit(content, uniqueMap) ==
    IF content = <<>> THEN <<>>
    ELSE LET sig == signature(Head(content))
         IN  IF sig \in uniqueMap
             THEN DedupFilterForgetOnHit(Tail(content), uniqueMap \ {sig})
             ELSE <<Head(content)>> \o
                  DedupFilterForgetOnHit(Tail(content), uniqueMap \cup {sig})

\* content.filter(row => ...) with the uniqueMap of the signatures seen.
RECURSIVE DedupFilter(_, _)
DedupFilter(content, uniqueMap) ==
    IF content = <<>> THEN <<>>
    ELSE LET sig == signature(Head(content))
         IN  IF sig \in uniqueMap
             THEN DedupFilter(Tail(content), uniqueMap)
             ELSE <<Head(content)>> \o
                  DedupFilter(Tail(content), uniqueMap \cup {sig})

deduplicateContent(content) == DedupFilter(content, {})

KeyA == <<"a">>
KeyB == <<"b">>

\* Rows of two columns whose values differ in outer white space or carry
\* the separator, and a row of one column.
DedupRowPool ==
    {<< <<KeyA, StringCell(va)>>, <<KeyB, StringCell(vb)>> >> :
        va \in {<<"x">>, <<" ", "x">>, <<"x", Pipe, "y">>},
        vb \in {<<"y">>, <<"y", Pipe, "y">>}}
    \cup {<< <<KeyA, StringCell(<<"x", Pipe, "y">>)>> >>}

DedupInit ==
    /\ dContent \in SeqsUpTo(DedupRowPool, MaxDedupRows)
    /\ dOutput = <<>>
    /\ dPc = "start"

DedupIdle ==
    /\ dContent = <<>>
    /\ dOutput = <<>>
    /\ dPc = "start"

DeduplicateContent ==
    /\ dPc = "start"
    /\ dOutput' = deduplicateContent(dContent)
    /\ dPc' = "done"
    /\ UNCHANGED dContent
    /\ UNCHANGED <<mergerVars, ruleVars, filterVars, genVars, parseVars, advisorVars,
                 matchedVars, normVars, simVars, csvVars, versionVars, appVars, semVars>>

(***************************************************************************)
(* Result page: filterSystemContent (pages/Result.tsx 36-153)              *)
(***************************************************************************)
\* Column-name keywords of the industry axis (Result.tsx 44).
industryKeywords ==
    << <<"C", "a", "t", "e", "C", "h", "o", "o", "s", "e">>,
       <<"C", "h", "i", "l", "d", "C", "a", "t", "e">>,
       <<"L", "i", "b", "r", "a", "r", "y", "N", "a", "m", "e">>,
       <<"T", "a", "r", "g", "e", "t", "C", "h">>,
       <<"ye", "tai">>, <<"chan", "ye">>, <<"shi", "yong", "fan", "wei">> >>

universalKeywords ==
    << <<"tong", "yong">>, <<"quan">>, <<"A", "l", "l">>,
       <<"G", "e", "n", "e", "r", "a", "l">>, <<"C", "o", "m", "m", "o", "n">> >>

typeKeywords == << <<"C", "a", "t", "e", "N", "a", "m", "e">>, <<"xiang", "mu", "lei", "xing">> >>

stopWords ==
    << <<"wo">>, <<"wo", "men">>, <<"zhi", "xu", "yao">>, <<"zhi">>, <<"yao">>,
       <<"xiang3">>, <<"cha", "kan">>, <<"xian", "shi4">>, <<"he2">>, <<"yu">>,
       <<"de">>, <<"nei", "rong">>, <<"xiang1", "guan">>, <<"shu", "ju">>,
       <<"ti", "xi">>, <<"biao", "zhun">>, <<"mo", "kuai">>, <<"bao", "han">>,
       <<"bao", "kuo4">>, <<"zhi", "you">>, <<"jin">>, <<"deng">> >>

\* The class [,，、\s] of the split pattern.
RequirementSeparators == Whitespace \cup {",", "fullwidth-comma", "dun-hao"}

\* array.filter(test), hits the results of the test.
RECURSIVE FilterByHits(_, _)
FilterByHits(array, hits) ==
    IF array = <<>> THEN <<>>
    ELSE (IF Head(hits) THEN <<Head(array)>> ELSE <<>>)
         \o FilterByHits(Tail(array), Tail(hits))

\* keys.filter(k => keywords.some(kw => k.includes(kw)))
ColumnsOf(keys, keywords) ==
    FilterByHits(keys,
        [n \in 1..Len(keys) |->
            \E k \in 1..Len(keywords) : includes(keys[n], keywords[k])])

\* cols.map(col => String(row[col] || "").trim())
RowValues(row, cols) ==
    [n \in 1..Len(cols) |-> trim(CellOrEmpty(RowGet(row, cols[n])))]

\* industryMatch / typeMatch of one row (Result.tsx 58-87, 90-107).
AxisMatch(row, selected, cols) ==
    IF Len(selected) > 0 /\ Len(cols) > 0
    THEN LET values   == RowValues(row, cols)
             hasValue == \E n \in 1..Len(values) : Len(values[n]) > 0
             isUniversal ==
                 \E n \in 1..Len(values) : \E u \in 1..Len(universalKeywords) :
                     includes(values[n], universalKeywords[u])
         IN  IF hasValue
             THEN IF isUniversal THEN TRUE
                  ELSE \E s \in 1..Len(selected) : \E n \in 1..Len(values) :
                           includes(values[n], selected[s])
             ELSE TRUE
    ELSE TRUE

\* str.split(/[class]+/)
RECURSIVE SplitRuns(_, _, _)
SplitRuns(str, class, current) ==
    IF str = <<>> THEN <<current>>
    ELSE IF Head(str) \in class
         THEN <<current>> \o SplitRuns(DropRun(Tail(str), class), class, <<>>)
         ELSE SplitRuns(Tail(str), class, current \o <<Head(str)>>)

\* str.replace(word, ''): the first occurrence of word is removed.
ReplaceFirst(str, word) ==
    IF includes(str, word)
    THEN LET i == CHOOSE k \in 0..(Len(str) - Len(word)) :
                      /\ SubSeq(str, k + 1, k + Len(word)) = word
                      /\ \A j \in 0..(k - 1) : SubSeq(str, j + 1, j + Len(word)) # word
         IN  SubSeq(str, 1, i) \o SubSeq(str, i + Len(word) + 1, Len(str))
    ELSE str

\* stopWords.forEach(sw => { clean = clean.replace(sw, '') }) from the n-th
\* stop word on.
RECURSIVE StripStopWords(_, _)
StripStopWords(clean, n) ==
    IF n > Len(stopWords) THEN clean
    ELSE StripStopWords(ReplaceFirst(clean, stopWords[n]), n + 1)

\* The keywords of the special requirements (Result.tsx 119-130).
RequirementKeywords(specialRequirements) ==
    LET tokens == SplitRuns(specialRequirements, RequirementSeparators, <<>>)
        clean  == [n \in 1..Len(tokens) |-> StripStopWords(tokens[n], 1)]
    IN  FilterByHits(clean, [n \in 1..Len(clean) |-> Len(clean[n]) > 0])

\* JSON.stringify of a string: quotes around the escaped characters.
RECURSIVE JsonEscape(_)
JsonEscape(str) ==
    IF str = <<>> THEN <<>>
    ELSE (CASE Head(str) = "\"" -> <<"\\", "\"">>
            [] Head(str) = "\\" -> <<"\\", "\\">>
            [] Head(str) = "\t" -> <<"\\", "t">>
            [] OTHER            -> <<Head(str)>>)
         \o JsonEscape(Tail(str))

JsonString(str) == <<"\"">> \o JsonEscape(str) \o <<"\"">>

\* JSON.stringify(row): the members whose value is not undefined.
JsonStringify(row) ==
    LET present == FilterByHits(row, [n \in 1..Len(row) |-> row[n][2].kind # "undefined"])
        members == [n \in 1..Len(present) |->
                       JsonString(present[n][1]) \o <<":">> \o JsonString(present[n][2].text)]
    IN  <<"{">> \o Join(members, <<",">>) \o <<"}">>

\* requirementMatch of one row (Result.tsx 112-147).
RequirementMatch(row, config) ==
    IF config.useAI /\ Len(config.specialRequirements) > 0
                    /\ Len(trim(config.specialRequirements)) > 0
    THEN LET keywords == RequirementKeywords(config.specialRequirements)
         IN  IF Len(keywords) > 0
             THEN LET rowString == toLowerCase(JsonStringify(row))
                  IN  \E k \in 1..Len(keywords) :
                          includes(rowString, toLowerCase(keywords[k]))
             ELSE TRUE
    ELSE TRUE

\* The callback of content.filter (Result.tsx 56-150).
RowRelevant(row, keys, config) ==
    /\ AxisMatch(row, config.industries, ColumnsOf(keys, industryKeywords))
    /\ AxisMatch(row, config.projectTypes, ColumnsOf(keys, typeKeywords))
    /\ RequirementMatch(row, config)

filterSystemContent(content, keys, config) ==
    IF Len(config.industries) = 0 /\ Len(config.projectTypes) = 0
    THEN deduplicateContent(content)
    ELSE deduplicateContent(
             FilterByHits(content,
                 [n \in 1..Len(content) |-> RowRelevant(content[n], keys, config)]))

(***************************************************************************)
(* Result page: module generation (pages/Result.tsx 161-262)               *)
(***************************************************************************)
\* A system: SystemMetadata (types.ts 19-36); hasContent and hasDetail say
\* whether the object carries content and keys / originalHeader
\* (SystemDetail, types.ts 38-42).
MkSystem(client, systemName, module, industries, date, content, hasContent, hasDetail) ==
    [client |-> client, systemName |-> systemName, module |-> module,
     applicableIndustries |-> industries, applicableProjectTypes |-> <<>>,
     date |-> date, itemCount |-> Len(content),
     hasContent |-> hasContent, content |-> IF hasContent THEN content ELSE <<>>,
     hasDetail |-> hasDetail,
     keys |-> IF hasDetail /\ content # <<>>
              THEN [n \in 1..Len(content[1]) |-> content[1][n][1]] ELSE <<>>,
     originalHeader |-> IF hasDetail /\ content # <<>>
              THEN [n \in 1..Len(content[1]) |-> content[1][n][1]] ELSE <<>>]

\* Object.keys(row)
ObjectKeys(row) == [n \in 1..Len(row) |-> row[n][1]]

\* let effectiveModule (Result.tsx 168-171); the empty string for none.
effectiveModule(s, config) ==
    IF s.module # <<>> THEN s.module
    ELSE IF s.systemName \in Range(config.modules) THEN s.systemName
    ELSE <<>>

\* applicable.length === 0 || applicable.some(x => selected.includes(x))
isApplicable(applicable, selected) ==
    \/ Len(applicable) = 0
    \/ \E n \in 1..Len(applicable) : applicable[n] \in Range(selected)

\* Mutant: the applicability metadata is not looked at.
IsCandidateAnyIndustry(s, config) ==
    /\ effectiveModule(s, config) # <<>>
    /\ effectiveModule(s, config) \in Range(config.modules)

\* The test under which allSystems.forEach pushes s to its group
\* (Result.tsx 173-186).
IsCandidate(s, config) ==
    /\ effectiveModule(s, config) # <<>>
    /\ effectiveModule(s, config) \in Range(config.modules)
    /\ isApplicable(s.applicableIndustries, config.industries)
    /\ isApplicable(s.applicableProjectTypes, config.projectTypes)

\* groups[moduleName]: the candidates of the module in the order of
\* allSystems.
Candidates(allSystems, config, moduleName) ==
    FilterByHits(allSystems,
        [n \in 1..Len(allSystems) |->
            /\ IsCandidate(allSystems[n], config)
            /\ effectiveModule(allSystems[n], config) = moduleName])

\* Object.keys(groups): the module names in the order in which their first
\* candidate occurs in allSystems.
RECURSIVE GroupNames(_, _, _)
GroupNames(allSystems, config, seen) ==
    IF allSystems = <<>> THEN <<>>
    ELSE LET s == Head(allSystems)
             m == effectiveModule(s, config)
         IN  IF IsCandidate(s, config) /\ m \notin seen
             THEN <<m>> \o GroupNames(Tail(allSystems), config, seen \cup {m})
             ELSE GroupNames(Tail(allSystems), config, seen)

\* What one candidate adds to mergedContent (Result.tsx 204-216).
SourceContent(c, config) ==
    LET sysContent == IF c.hasContent THEN c.content ELSE <<>>
    IN  IF Len(sysContent) > 0
        THEN filterSystemContent(sysContent, ObjectKeys(sysContent[1]), config)
        ELSE <<>>

\* mergedContent after candidates.forEach.
RECURSIVE MergedContent(_, _)
MergedContent(candidates, config) ==
    IF candidates = <<>> THEN <<>>
    ELSE SourceContent(Head(candidates), config)
         \o MergedContent(Tail(candidates), config)

\* sourceCounts after candidates.forEach.
RECURSIVE SourceCounts(_, _)
SourceCounts(candidates, config) ==
    IF candidates = <<>> THEN <<>>
    ELSE LET filteredSourceContent == SourceContent(Head(candidates), config)
         IN  (IF Len(filteredSourceContent) > 0
              THEN <<[name  |-> Head(candidates).client,
                      count |-> Len(filteredSourceContent)]>>
              ELSE <<>>)
             \o SourceCounts(Tail(candidates), config)

\* One step of the stable sort of candidates.sort((a, b) => b.itemCount -
\* a.itemCount): c goes behind every element whose itemCount is not smaller.
RECURSIVE InsertByItemCount(_, _)
InsertByItemCount(sorted, c) ==
    IF sorted = <<>> THEN <<c>>
    ELSE IF c.itemCount - Head(sorted).itemCount > 0
         THEN <<c>> \o sorted
         ELSE <<Head(sorted)>> \o InsertByItemCount(Tail(sorted), c)

RECURSIVE SortByItemCount(_, _)
SortByItemCount(candidates, sorted) ==
    IF candidates = <<>> THEN sorted
    ELSE SortByItemCount(Tail(candidates), InsertByItemCount(sorted, Head(candidates)))

\* Mutant: the base is the first candidate of the group as it was filled.
BaseSystemFirstCandidate(candidates) == candidates[1]

\* candidates.sort(...); const baseSystem = candidates[0]
BaseSystem(candidates) == SortByItemCount(candidates, <<>>)[1]

DigitChars == <<"0", "1", "2", "3", "4", "5", "6", "7", "8", "9">>

\* String(n) of a non-negative integer.
RECURSIVE NumberToString(_)
NumberToString(n) ==
    IF n < 10 THEN <<DigitChars[n + 1]>>
    ELSE NumberToString(n \div 10) \o <<DigitChars[(n % 10) + 1]>>

\* `${sc.name} (${sc.count}xiang)` joined by ', ' behind the "lai yuan: "
\* prefix (Result.tsx 231).
SourceInfo(sourceCounts) ==
    <<"lai", "yuan", ":", " ">> \o
    Join([n \in 1..Len(sourceCounts) |->
             sourceCounts[n].name \o <<" ", "(">>
             \o NumberToString(sourceCounts[n].count) \o <<"xiang", ")">>],
         <<",", " ">>)

\* matchLogic (Result.tsx 234-238)
MatchLogic(config) ==
    LET parts ==
            (IF Len(config.industries) > 0
             THEN << <<"hang", "ye", "pi", "pei", ":", " ">>
                     \o Join(config.industries, <<",", " ">>) >> ELSE <<>>)
            \o (IF Len(config.projectTypes) > 0
                THEN << <<"xiang", "mu", "lei", "xing", "pi", "pei", ":", " ">>
                        \o Join(config.projectTypes, <<",", " ">>) >> ELSE <<>>)
            \o (IF Len(config.specialRequirements) > 0
                THEN << <<"te", "shu", "yao", "qiu", ":", " ">>
                        \o config.specialRequirements >> ELSE <<>>)
    IN  IF Len(parts) > 0 THEN Join(parts, <<" ", "|", " ">>)
        ELSE <<"tong", "yong", "pi", "pei">>

\* The generatedSystem of one group (Result.tsx 191-258); now is Date.now().
GeneratedSystem(moduleName, candidates, config, now) ==
    LET finalContent == deduplicateContent(MergedContent(candidates, config))
        baseSystem   == BaseSystem(candidates)
        firstKeys    == IF Len(finalContent) > 0 THEN ObjectKeys(finalContent[1]) ELSE <<>>
    IN  [id |-> <<"G", "E", "N", "_">> \o moduleName \o <<"_">> \o NumberToString(now),
         client |-> <<"xi", "tong", "sheng", "cheng">>,
         filename |-> moduleName \o <<".", "x", "l", "s", "x">>,
         systemName |-> moduleName,
         tags |-> << <<"G", "e", "n", "e", "r", "a", "t", "e", "d">> >>
                  \o config.industries \o config.projectTypes,
         itemCount |-> Len(finalContent),
         sourceInfo |-> SourceInfo(SourceCounts(candidates, config)),
         matchLogic |-> MatchLogic(config),
         content |-> finalContent,
         keys |-> IF baseSystem.hasDetail THEN baseSystem.keys ELSE firstKeys,
         originalHeader |-> IF baseSystem.hasDetail THEN baseSystem.originalHeader
                            ELSE firstKeys,
         \* ...baseSystem: the members that are not overwritten
         module |-> baseSystem.module,
         applicableIndustries |-> baseSystem.applicableIndustries,
         applicableProjectTypes |-> baseSystem.applicableProjectTypes,
         date |-> baseSystem.date]

\* generatedList: one generated system per group.
GeneratedList(allSystems, config, now) ==
    LET names == GroupNames(allSystems, config, {})
    IN  [n \in 1..Len(names) |->
            GeneratedSystem(names[n], Candidates(allSystems, config, names[n]),
                            config, now)]

SourceCountsList(allSystems, config) ==
    LET names == GroupNames(allSystems, config, {})
    IN  [n \in 1..Len(names) |->
            SourceCounts(Candidates(allSystems, config, names[n]), config)]

ModuleQuality == <<"zhi", "liang">>
ModuleSafety  == <<"an", "quan">>

\* Rows of a table with a name and an industry column; the first two
\* differ in both values and share their signature.
GenRowPipeInName ==
    << <<KeyName, StringCell(<<"x", Pipe, "x">>)>>, <<KeyIndustry, StringCell(Shangye)>> >>
GenRowPipeInIndustry ==
    << <<KeyName, StringCell(<<"x">>)>>,
       <<KeyIndustry, StringCell(<<"x", Pipe>> \o Shangye)>> >>
GenRowZhuzhai ==
    << <<KeyName, StringCell(<<"x">>)>>, <<KeyIndustry, StringCell(Zhuzhai)>> >>
GenRowZhuzhaiY ==
    << <<KeyName, StringCell(<<"y">>)>>, <<KeyIndustry, StringCell(Zhuzhai)>> >>

\* Uploaded systems (content, keys, header), the master library (content,
\* no module, no keys), a system known by its metadata only and a system
\* for one project type.
SystemPool ==
    {MkSystem(<<c>>, <<"f">>, ModuleQuality, <<>>, <<c, "1">>, content, TRUE, TRUE) :
        c \in {"A", "B"},
        content \in {<<GenRowPipeInName>>, <<GenRowPipeInIndustry>>,
                     <<GenRowPipeInName, GenRowPipeInIndustry>>,
                     <<GenRowZhuzhai, GenRowZhuzhaiY>>}}
    \cup {MkSystem(<<"C">>, <<"f">>, ModuleSafety, <<Zhuzhai>>, <<"C", "1">>,
                   <<GenRowPipeInIndustry>>, TRUE, TRUE),
          MkSystem(<<"M">>, ModuleSafety, <<>>, <<>>, <<"M", "1">>,
                   <<GenRowPipeInIndustry>>, TRUE, FALSE),
          MkSystem(<<"I">>, <<"f">>, ModuleQuality, <<>>, <<"I", "1">>,
                   <<GenRowZhuzhai, GenRowZhuzhaiY, GenRowPipeInName>>, FALSE, FALSE),
          [MkSystem(<<"T">>, <<"f">>, ModuleQuality, <<>>, <<"T", "1">>,
                    <<GenRowZhuzhai>>, TRUE, TRUE)
              EXCEPT !.applicableProjectTypes = <<Xinjian>>]}

GenConfigPool ==
    {[industries |-> ind, projectTypes |-> <<>>, modules |-> mods,
      useAI |-> req # <<>>, specialRequirements |-> req] :
        ind  \in {<<>>, <<Shangye>>},
        mods \in {<<ModuleQuality>>, <<ModuleQuality, ModuleSafety>>},
        req  \in {<<>>, <<"zhi", "yao", " ", "x">>}}
    \cup {[industries |-> ind, projectTypes |-> <<Xinjian>>,
           modules |-> <<ModuleQuality, ModuleSafety>>,
           useAI |-> FALSE, specialRequirements |-> <<>>] :
              ind \in {<<>>, <<Shangye>>}}

Clock == {1, 2}

EmptyGenConfig ==
    [industries |-> <<>>, projectTypes |-> <<>>, modules |-> <<>>,
     useAI |-> FALSE, specialRequirements |-> <<>>]

GenInit ==
    /\ gAllSystems \in SeqsUpTo(SystemPool, MaxSystems)
    /\ gConfig \in GenConfigPool
    /\ gSystemsToExport = <<>>
    /\ gSourceCounts = <<>>
    /\ gPc = "start"

GenIdle ==
    /\ gAllSystems = <<>>
    /\ gConfig = EmptyGenConfig
    /\ gSystemsToExport = <<>>
    /\ gSourceCounts = <<>>
    /\ gPc = "start"

\* The effect of Result (Result.tsx 161-262).
GenerateModules ==
    /\ gPc = "start"
    /\ \E now \in Clock :
          gSystemsToExport' = GeneratedList(gAllSystems, gConfig, now)
    /\ gSourceCounts' = SourceCountsList(gAllSystems, gConfig)
    /\ gPc' = "done"
    /\ UNCHANGED <<gAllSystems, gConfig>>
    /\ UNCHANGED <<mergerVars, ruleVars, filterVars, dedupVars, parseVars, advisorVars,
                 matchedVars, normVars, simVars, csvVars, versionVars, appVars, semVars>>

(***************************************************************************)
(* AIAdvisor: parseAIResponse (unnamed/part_001 290-316)                   *)
(***************************************************************************)
\* The class [A-Z0-9\-]
IdChars ==
    {"A", "B", "C", "D", "E", "F", "G", "H", "I", "J", "K", "L", "M",
     "N", "O", "P", "Q", "R", "S", "T", "U", "V", "W", "X", "Y", "Z",
     "0", "1", "2", "3", "4", "5", "6", "7", "8", "9", "-"}

\* The characters the regular expression . does not match.
LineTerminators == {"\n", "\r"}

\* The longest prefix of str made of characters of class.
RECURSIVE TakeRun(_, _)
TakeRun(str, class) ==
    IF str # <<>> /\ Head(str) \in class
    THEN <<Head(str)>> \o TakeRun(Tail(str), class)
    ELSE <<>>

\* str.split(sep) for a one-character separator.
RECURSIVE SplitChar(_, _)
SplitChar(str, sep) ==
    IF \A n \in 1..Len(str) : str[n] # sep THEN <<str>>
    ELSE LET i == CHOOSE n \in 1..Len(str) :
                      str[n] = sep /\ \A m \in 1..(n - 1) : str[m] # sep
         IN  <<SubSeq(str, 1, i - 1)>> \o SplitChar(SubSeq(str, i + 1, Len(str)), sep)

NoMatch == [matched |-> FALSE, id |-> <<>>, reason |-> <<>>]

\* line.match(/^([A-Z0-9\-]+)\s*:\s*(.+)$/): the groups 1 and 2.
MatchLine(line) ==
    LET id        == TakeRun(line, IdChars)
        afterId   == DropRun(SubSeq(line, Len(id) + 1, Len(line)), Whitespace)
    IN  IF id = <<>> \/ afterId = <<>> \/ Head(afterId) # ":"
        THEN NoMatch
        ELSE LET reason == DropRun(Tail(afterId), Whitespace)
             IN  IF reason = <<>> \/ \E n \in 1..Len(reason) : reason[n] \in LineTerminators
                 THEN NoMatch
                 ELSE [matched |-> TRUE, id |-> id, reason |-> reason]

\* Mutant: the catalog is not consulted.
ParseLineAnyId(line, standards) ==
    LET match == MatchLine(trim(line))
    IN  IF Len(trim(line)) > 0 /\ match.matched
        THEN <<[standard_id |-> match.id, source |-> "ai", reason |-> match.reason]>>
        ELSE <<>>

\* The callback of lines.forEach: what one line pushes to results.
ParseLine(line, standards) ==
    LET trimmed == trim(line)
        match   == MatchLine(trimmed)
    IN  IF Len(trimmed) > 0 /\ match.matched
           /\ \E n \in 1..Len(standards) : standards[n].standard_id = match.id
        THEN <<[standard_id |-> match.id, source |-> "ai", reason |-> match.reason]>>
        ELSE <<>>

RECURSIVE ParseLines(_, _)
ParseLines(lines, standards) ==
    IF lines = <<>> THEN <<>>
    ELSE ParseLine(Head(lines), standards) \o ParseLines(Tail(lines), standards)

parseAIResponse(response, standards) ==
    ParseLines(SplitChar(response, "\n"), standards)

QC001 == <<"Q", "C", "-", "0", "0", "1">>
QC002 == <<"Q", "C", "-", "0", "0", "2">>
QC999 == <<"Q", "C", "-", "9", "9", "9">>
Fits  == <<"f", "i", "t", "s">>

\* Response lines: accepted ones (plain, padded, with a second colon, with
\* the carriage return of a CRLF line end), an unknown id, and lines the
\* pattern rejects (no colon, lower case id, no reason, a carriage return
\* inside the reason, blank).
LinePool ==
    { QC001 \o <<":", " ">> \o Fits,
      <<" ">> \o QC001 \o <<" ", ":", "\t">> \o Fits \o <<" ">>,
      QC002 \o <<":">> \o Fits \o <<":", " ", "x">>,
      QC002 \o <<":", " ">> \o Fits \o <<"\r">>,
      QC999 \o <<":", " ">> \o Fits,
      <<"N", "O", "P", "E">>,
      <<"q", "c", "-", "0", "0", "1", ":", " ">> \o Fits,
      QC001 \o <<":", " ">>,
      QC001 \o <<":", " ", "a", "\r", "b">>,
      <<" ">> }

AdvisorCatalogPool ==
    { <<[standard_id |-> QC001]>>, <<[standard_id |-> QC001], [standard_id |-> QC002]>> }

ParseInit ==
    /\ pStandards \in AdvisorCatalogPool
    /\ \E lines \in SeqsUpTo(LinePool, MaxLines) : pResponse = Join(lines, <<"\n">>)
    /\ pResults = <<>>
    /\ pPc = "start"

ParseIdle ==
    /\ pStandards = <<>>
    /\ pResponse = <<>>
    /\ pResults = <<>>
    /\ pPc = "start"

ParseAIResponse ==
    /\ pPc = "start"
    /\ pResults' = parseAIResponse(pResponse, pStandards)
    /\ pPc' = "done"
    /\ UNCHANGED <<pStandards, pResponse>>
    /\ UNCHANGED <<mergerVars, ruleVars, filterVars, dedupVars, genVars, advisorVars,
                 matchedVars, normVars, simVars, csvVars, versionVars, appVars, semVars>>

(***************************************************************************)
(* AIAdvisor (unnamed/part_001 23-328)                                     *)
(***************************************************************************)
FullwidthComma == "fullwidth-comma"
FullwidthStop  == "fullwidth-stop"

\* industries.join(', ') behind its label, or the label with "bu xian"
\* (unnamed/part_001 61-62).
ProfileDesc(label, values) ==
    label \o <<":", " ">> \o
    (IF Len(values) > 0 THEN Join(values, <<",", " ">>) ELSE <<"bu", "xian4">>)

\* existingDesc (unnamed/part_001 65-67)
ExistingDesc(existingStandards) ==
    <<"yi4", "xuan", "ze", "biao", "zhun", ":", " ">> \o
    (IF Len(existingStandards) > 0
     THEN Join([n \in 1..Len(existingStandards) |-> existingStandards[n].standard_id],
               <<",", " ">>)
     ELSE <<"wu">>)

\* The text of one semantic description (unnamed/part_001 71).
SemanticText(sd) ==
    <<"#", "#", " ">> \o sd.standard_id \o <<" ">> \o sd.content \o <<"\n">>
    \o <<"shi", "yong", "chang", "jing", ":", " ">>
    \o Join(sd.applicable_scenarios, <<",", " ">>) \o <<"\n">>
    \o <<"bu", "jian", "yi5", "shi3", "yong", "chang", "jing", ":", " ">>
    \o Join(sd.not_recommended_scenarios, <<",", " ">>)

\* semanticDesc (unnamed/part_001 70-72)
SemanticDesc(semantics) ==
    Join([n \in 1..Len(semantics) |-> SemanticText(semantics[n])], <<"\n", "\n">>)

\* The fixed text of the prompt around the four inserted descriptions.
PromptHead ==
    <<"\n", "ni", "shi5", "yi", "ge", "zhuan", "ye", "de", "gong", "cheng",
      "biao", "zhun", "gu", "wen", FullwidthComma, "gen", "ju", "yi3", "xia",
      "xiang", "mu", "xin4", "xi1", "he2", "ke", "yong", "biao", "zhun",
      FullwidthComma, "tui", "jian4", "shi", "he", "de", "biao", "zhun",
      "xiang", FullwidthStop, "\n", "\n",
      "xiang", "mu", "xin4", "xi1", ":", "\n">>

PromptSemanticsLabel ==
    <<"\n", "\n", "ke", "yong", "biao", "zhun", "yu3", "yi6", "miao", "shu4",
      ":", "\n">>

PromptTail ==
    <<"\n", "\n", "qing", "gen", "ju", "xiang", "mu", "xin4", "xi1", "he2",
      "yu3", "yi6", "miao", "shu4", FullwidthComma, "tui", "jian4",
      "5", "-", "1", "0", "ge", "shi", "he", "de", "biao", "zhun", "xiang",
      FullwidthComma, "bing", "shuo", "ming2", "tui", "jian4", "li3", "you2",
      FullwidthStop, "\n", "\n",
      "shu1", "chu", "ge2", "shi6", ":", "\n",
      "biao", "zhun", "I", "D", "1", ":", " ", "tui", "jian4", "li3", "you2", "1", "\n",
      "biao", "zhun", "I", "D", "2", ":", " ", "tui", "jian4", "li3", "you2", "2", "\n",
      ".", ".", ".", "\n">>

\* AIAdvisor.generatePrompt
generatePrompt(input, semantics) ==
    PromptHead
    \o ProfileDesc(<<"hang", "ye">>, input.industries) \o <<"\n">>
    \o ProfileDesc(<<"xiang", "mu", "lei", "xing">>, input.projectTypes) \o <<"\n">>
    \o ExistingDesc(input.existingStandards)
    \o PromptSemanticsLabel
    \o SemanticDesc(semantics)
    \o PromptTail

Dichan == <<"di", "chan">>
Ditie  == <<"di", "tie">>
Gaikuojian == <<"gai", "kuo", "jian">>

\* industryKeywords of extractIndustriesFromPrompt (unnamed/part_001 152)
PromptIndustryKeywords ==
    << Dichan, <<"jian", "zhu2">>, <<"shi1", "gong">>, <<"gong", "cheng">>, Ditie,
       <<"tie", "lu">>, <<"gong1", "lu">>, <<"qiao", "liang2">>, <<"sui", "dao">>,
       <<"shui", "li4">> >>

\* projectTypeKeywords of extractProjectTypesFromPrompt (unnamed/part_001 166)
PromptProjectTypeKeywords ==
    << Xinjian, Gaikuojian, <<"gai", "zao">>, <<"zhuang", "xiu">>,
       <<"wei2", "hu">>, <<"xiu", "shan">> >>

\* The keywords the prompt includes, in the order of the keyword list.
ExtractFromPrompt(prompt, keywords) ==
    FilterByHits(keywords, [n \in 1..Len(keywords) |-> includes(prompt, keywords[n])])

QC003     == <<"Q", "C", "-", "0", "0", "3">>
DESIGN001 == <<"D", "E", "S", "I", "G", "N", "-", "0", "0", "1">>

Rec(id, reason) == [standard_id |-> id, reason |-> reason]

realEstateStandards ==
    << Rec(QC001, Dichan \o <<"xiang", "mu", "bi", "bei", "de", "gong", "cheng",
                               "zhi4", "liang", "guan", "li", "zhi4", "du">>),
       Rec(<<"S", "A", "F", "E", "-", "0", "0", "1">>, Dichan \o <<"xiang", "mu", "de", "an", "quan", "guan", "li",
                                 "biao", "zhun">>),
       Rec(<<"M", "A", "T", "-", "0", "0", "1">>, Dichan \o <<"xiang", "mu", "de", "cai", "liao", "yan", "shou",
                                "biao", "zhun">>) >>

subwayStandards ==
    << Rec(QC002, Ditie \o <<"gong", "cheng", "zhi4", "liang", "kong", "zhi4",
                             "biao", "zhun">>),
       Rec(<<"S", "A", "F", "E", "-", "0", "0", "2">>, Ditie \o <<"gong", "cheng", "an", "quan", "guan", "li",
                               "biao", "zhun">>) >>

newProjectStandards ==
    << Rec(DESIGN001, Xinjian \o <<"xiang", "mu", "de", "she", "ji", "gui", "fan",
                                   "biao", "zhun">>),
       Rec(<<"P", "L", "A", "N", "-", "0", "0", "1">>, Xinjian \o <<"xiang", "mu", "de", "ji4", "hua", "guan", "li",
                                 "biao", "zhun">>) >>

renovationStandards ==
    << Rec(<<"D", "E", "S", "I", "G", "N", "-", "0", "0", "2">>, Gaikuojian \o <<"xiang", "mu", "de", "she", "ji", "gui", "fan",
                                      "biao", "zhun">>),
       Rec(<<"S", "A", "F", "E", "-", "0", "0", "3">>, Gaikuojian \o <<"xiang", "mu", "de", "an", "quan", "guan", "li",
                                    "biao", "zhun">>) >>

generalStandards ==
    << Rec(QC003, <<"tong", "yong", "gong", "cheng", "zhi4", "liang", "kong", "zhi4",
                    "biao", "zhun">>),
       Rec(<<"S", "A", "F", "E", "-", "0", "0", "4">>, <<"tong", "yong", "gong", "cheng", "an", "quan", "guan", "li",
                      "biao", "zhun">>),
       Rec(<<"M", "A", "N", "A", "G", "E", "-", "0", "0", "1">>, <<"tong", "yong", "xiang", "mu", "guan", "li", "biao", "zhun">>),
       Rec(<<"E", "N", "V", "-", "0", "0", "1">>, <<"tong", "yong", "huan", "jing", "guan", "li", "biao", "zhun">>),
       Rec(<<"R", "I", "S", "K", "-", "0", "0", "1">>, <<"tong", "yong", "feng", "xian", "guan", "li", "biao", "zhun">>) >>

GeneralThreshold == 5     \* recommendations.length < 5
GeneralLimit     == 10    \* recommendations.length < 10

\* list.forEach(rec => { if (!recommendedStandardIds.has(rec.id)) push });
\* limited: the general list also tests recommendations.length < 10.
RECURSIVE AddRecommendations(_, _, _)
AddRecommendations(recommendations, list, limited) ==
    IF list = <<>> THEN recommendations
    ELSE LET rec  == Head(list)
             has  == \E n \in 1..Len(recommendations) :
                         recommendations[n].standard_id = rec.standard_id
         IN  AddRecommendations(
                 IF ~has /\ (limited => Len(recommendations) < GeneralLimit)
                 THEN Append(recommendations, rec) ELSE recommendations,
                 Tail(list), limited)

\* AIAdvisor.generateLocalRecommendations
generateLocalRecommendations(industries, projectTypes) ==
    LET r1 == IF Dichan \in Range(industries)
              THEN AddRecommendations(<<>>, realEstateStandards, FALSE) ELSE <<>>
        r2 == IF Ditie \in Range(industries)
              THEN AddRecommendations(r1, subwayStandards, FALSE) ELSE r1
        r3 == IF Xinjian \in Range(projectTypes)
              THEN AddRecommendations(r2, newProjectStandards, FALSE) ELSE r2
        r4 == IF Gaikuojian \in Range(projectTypes)
              THEN AddRecommendations(r3, renovationStandards, FALSE) ELSE r3
    IN  IF Len(r4) < GeneralThreshold
        THEN AddRecommendations(r4, generalStandards, TRUE)
        ELSE r4

\* AIAdvisor.callLocalLLM
callLocalLLM(prompt) ==
    LET industries      == ExtractFromPrompt(prompt, PromptIndustryKeywords)
        projectTypes    == ExtractFromPrompt(prompt, PromptProjectTypeKeywords)
        recommendations == generateLocalRecommendations(industries, projectTypes)
    IN  Join([n \in 1..Len(recommendations) |->
                 recommendations[n].standard_id \o <<":", " ">>
                 \o recommendations[n].reason],
             <<"\n">>)

\* A JavaScript value as far as the advisor tells values apart.
UndefinedValue == [type |-> "undefined", text |-> <<>>]
StringValue(text) == [type |-> "string", text |-> text]
NumberValue(text) == [type |-> "number", text |-> text]

\* v || alternative
Truthy(v) ==
    \/ v.type = "string" /\ v.text # <<>>
    \/ v.type = "number" /\ v.text # <<"0">>

\* How an evaluation ends: with a value, or by throwing.
Returned(v) == [threw |-> FALSE, value |-> v]
Thrown == [threw |-> TRUE, value |-> UndefinedValue]

\* How parseAIResponse ends.
ReturnedList(list) == [threw |-> FALSE, list |-> list]
ThrownList == [threw |-> TRUE, list |-> <<>>]

\* this.parseAIResponse(response): response.split throws on anything but a
\* string (unnamed/part_001 292).
ParseValue(response, standards) ==
    IF response.type = "string"
    THEN ReturnedList(parseAIResponse(response.text, standards))
    ELSE ThrownList

\* data.choices[0].message.content (unnamed/part_001 133)
OpenAIContent(data) ==
    IF \/ data.type # "object"
       \/ ~data.hasChoices
       \/ Len(data.choices) = 0
       \/ ~data.choices[1].hasMessage
    THEN Thrown
    ELSE Returned(data.choices[1].content)

\* data.response || '' (unnamed/part_001 286)
CustomResponse(data) ==
    IF data.type # "object" THEN Thrown
    ELSE Returned(IF Truthy(data.response) THEN data.response ELSE StringValue(<<>>))

DefaultTemperature == <<"0", ".", "7">>
DefaultMaxTokens == 1000

\* The request of callOpenAI (unnamed/part_001 115-130).
OpenAIRequest(config, prompt) ==
    [url |-> config.endpoint,
     authorization |-> <<"B", "e", "a", "r", "e", "r", " ">> \o config.apiKey,
     model |-> "gpt-3.5-turbo",
     prompt |-> prompt,
     temperature |-> DefaultTemperature,
     max_tokens |-> DefaultMaxTokens]

\* The request of callCustomAPI (unnamed/part_001 273-283).
CustomRequest(config, prompt) ==
    [url |-> config.endpoint,
     authorization |-> <<>>,
     model |-> "",
     prompt |-> prompt,
     temperature |-> DefaultTemperature,
     max_tokens |-> DefaultMaxTokens]

\* Whether callAI throws before any request: an unsupported model, or the
\* configuration the model needs is missing (unnamed/part_001 97-113,
\* 269-271).
ThrowsBeforeRequest(config) ==
    CASE config.model = "openai" -> config.apiKey = <<>> \/ config.endpoint = <<>>
      [] config.model = "custom" -> config.endpoint = <<>>
      [] config.model = "local"  -> FALSE
      [] OTHER                   -> TRUE

\* Mutant: nothing is caught, a throw rejects the promise.
SettleWithoutCatch(outcome) ==
    IF outcome.threw
    THEN [state |-> "rejected", value |-> <<>>]
    ELSE [state |-> "resolved", value |-> outcome.list]

\* try { ... return parsed } catch (error) { return [] }
\* (unnamed/part_001 40-52)
Settle(outcome) ==
    IF outcome.threw
    THEN [state |-> "resolved", value |-> <<>>]
    ELSE [state |-> "resolved", value |-> outcome.list]

Pending == [state |-> "pending", value |-> <<>>]

Threshold == 5

\* Mutant: five existing matches still ask for AI.
shouldUseAIUpToThreshold(config, input) ==
    config.enabled /\ Len(input.existingStandards) <= Threshold

\* AIAdvisor.shouldUseAI
shouldUseAI(config, input) ==
    IF ~config.enabled THEN FALSE
    ELSE Len(input.existingStandards) < Threshold

\* Configurations: every model, with and without the key and the endpoint.
AdvisorConfigPool ==
    {[enabled |-> en, model |-> m, apiKey |-> cred[1], endpoint |-> cred[2]] :
        en \in BOOLEAN, m \in {"openai", "local", "custom"},
        cred \in {<< <<"k">>, <<"u">> >>, << <<>>, <<"u">> >>, << <<"k">>, <<>> >>}}

LocalCatalogPool ==
    { <<[standard_id |-> QC001]>>,
      <<[standard_id |-> QC001], [standard_id |-> QC003], [standard_id |-> DESIGN001]>> }

MkSemantic(id, content, applicable, notRecommended) ==
    [standard_id |-> id, content |-> content,
     applicable_scenarios |-> applicable,
     not_recommended_scenarios |-> notRecommended]

\* Semantic descriptions: none, one that names no keyword of the local
\* model, and ones whose scenarios name "di chan" and "xin jian".
SemanticsPool ==
    { <<>>,
      <<MkSemantic(QC001, <<"x">>, << <<"y">> >>, <<>>)>>,
      <<MkSemantic(QC001, <<"x">>, << Dichan \o <<"xiang", "mu">> >>, <<>>)>>,
      <<MkSemantic(QC001, <<"x">>, << Dichan \o <<"xiang", "mu">> >>,
                   << Xinjian \o <<"xiang", "mu">> >>)>>,
      <<MkSemantic(QC001, <<"x">>, << <<"y">> >>, <<>>),
        MkSemantic(QC003, <<"x">>, << Dichan \o <<"xiang", "mu">> >>,
                   << Xinjian \o <<"xiang", "mu">> >>)>> }

ExistingResult == [standard_id |-> QC002, source |-> "rule", reason |-> <<"x">>]

AdvisorInputPool ==
    {[industries |-> ind, projectTypes |-> pt,
      existingStandards |-> [n \in 1..k |-> ExistingResult]] :
        ind \in {<<>>, <<Dichan>>}, pt \in {<<>>, <<Xinjian>>}, k \in 0..MaxExisting}

Choice(hasMessage, content) == [hasMessage |-> hasMessage, content |-> content]

MkData(type, hasChoices, choices, response) ==
    [type |-> type, hasChoices |-> hasChoices, choices |-> choices,
     response |-> response]

GoodText == QC001 \o <<":", " ">> \o Fits \o <<"\n">> \o QC999 \o <<":", " ">> \o Fits

\* JSON bodies: null, an error object, the shapes of the two APIs with a
\* string where one is expected, and with parts missing or of another type.
DataPool ==
    { MkData("null", FALSE, <<>>, UndefinedValue),
      MkData("object", FALSE, <<>>, UndefinedValue),
      MkData("object", TRUE, <<>>, UndefinedValue),
      MkData("object", TRUE, <<Choice(FALSE, UndefinedValue)>>, UndefinedValue),
      MkData("object", TRUE, <<Choice(TRUE, UndefinedValue)>>, UndefinedValue),
      MkData("object", TRUE, <<Choice(TRUE, NumberValue(<<"5">>))>>, UndefinedValue),
      MkData("object", TRUE, <<Choice(TRUE, StringValue(GoodText))>>, UndefinedValue),
      MkData("object", FALSE, <<>>, StringValue(GoodText)),
      MkData("object", FALSE, <<>>, StringValue(<<>>)),
      MkData("object", FALSE, <<>>, NumberValue(<<"5">>)) }

NoData == MkData("none", FALSE, <<>>, UndefinedValue)

\* What the two awaited promises settled with.
NotFetched == [fetch |-> "none", json |-> "none", data |-> NoData]

AdvisorInit ==
    /\ aConfig \in AdvisorConfigPool
    /\ aStandards \in LocalCatalogPool
    /\ aSemantics \in SemanticsPool
    /\ aInput \in AdvisorInputPool
    /\ aShould = FALSE
    /\ aRequests = <<>>
    /\ aFetched = NotFetched
    /\ aResult = Pending
    /\ aPc = "start"

AdvisorIdle ==
    /\ aConfig = [enabled |-> FALSE, model |-> "local", apiKey |-> <<>>, endpoint |-> <<>>]
    /\ aStandards = <<>>
    /\ aSemantics = <<>>
    /\ aInput = [industries |-> <<>>, projectTypes |-> <<>>, existingStandards |-> <<>>]
    /\ aShould = FALSE
    /\ aRequests = <<>>
    /\ aFetched = NotFetched
    /\ aResult = Pending
    /\ aPc = "start"

\* AIAdvisor.shouldUseAI
ShouldUseAI ==
    /\ aPc = "start"
    /\ aShould' = shouldUseAI(aConfig, aInput)
    /\ aPc' = "asked"
    /\ UNCHANGED <<aConfig, aStandards, aSemantics, aInput, aRequests, aFetched, aResult>>
    /\ UNCHANGED <<mergerVars, ruleVars, filterVars, dedupVars, genVars, parseVars,
                 matchedVars, normVars, simVars, csvVars, versionVars, appVars, semVars>>

\* AIAdvisor.getRecommendations up to its first await that leaves the
\* advisor: the disabled return, the local model, a throw of callAI, or
\* the request handed to fetch.
GetRecommendations ==
    /\ aPc = "asked"
    /\ LET prompt == generatePrompt(aInput, aSemantics)
       IN  IF ~aConfig.enabled
           THEN /\ aResult' = [state |-> "resolved", value |-> <<>>]
                /\ aPc' = "done"
                /\ UNCHANGED aRequests
           ELSE IF ThrowsBeforeRequest(aConfig)
           THEN /\ aResult' = Settle(ThrownList)
                /\ aPc' = "done"
                /\ UNCHANGED aRequests
           ELSE IF aConfig.model = "local"
           THEN /\ aResult' = Settle(ParseValue(StringValue(callLocalLLM(prompt)),
                                                aStandards))
                /\ aPc' = "done"
                /\ UNCHANGED aRequests
           ELSE /\ aRequests' = Append(aRequests,
                                   IF aConfig.model = "openai"
                                   THEN OpenAIRequest(aConfig, prompt)
                                   ELSE CustomRequest(aConfig, prompt))
                /\ aPc' = "fetch"
                /\ UNCHANGED aResult
    /\ UNCHANGED <<aConfig, aStandards, aSemantics, aInput, aShould, aFetched>>
    /\ UNCHANGED <<mergerVars, ruleVars, filterVars, dedupVars, genVars, parseVars,
                 matchedVars, normVars, simVars, csvVars, versionVars, appVars, semVars>>

\* await fetch(...): the request fails, or a response arrives.
FetchSettles ==
    /\ aPc = "fetch"
    /\ \E ok \in BOOLEAN :
          IF ok
          THEN /\ aFetched' = [aFetched EXCEPT !.fetch = "fulfilled"]
               /\ aPc' = "json"
               /\ UNCHANGED aResult
          ELSE /\ aFetched' = [aFetched EXCEPT !.fetch = "rejected"]
               /\ aResult' = Settle(ThrownList)
               /\ aPc' = "done"
    /\ UNCHANGED <<aConfig, aStandards, aSemantics, aInput, aShould, aRequests>>
    /\ UNCHANGED <<mergerVars, ruleVars, filterVars, dedupVars, genVars, parseVars,
                 matchedVars, normVars, simVars, csvVars, versionVars, appVars, semVars>>

\* What follows await response.json() when it yields data.
AfterJson(config, data, standards) ==
    LET content == IF config.model = "openai" THEN OpenAIContent(data)
                   ELSE CustomResponse(data)
    IN  IF content.threw THEN ThrownList ELSE ParseValue(content.value, standards)

\* await response.json(): the body is not JSON, or it is some data.
JsonSettles ==
    /\ aPc = "json"
    /\ \/ /\ aFetched' = [aFetched EXCEPT !.json = "rejected"]
          /\ aResult' = Settle(ThrownList)
       \/ \E data \in DataPool :
             /\ aFetched' = [aFetched EXCEPT !.json = "fulfilled", !.data = data]
             /\ aResult' = Settle(AfterJson(aConfig, data, aStandards))
    /\ aPc' = "done"
    /\ UNCHANGED <<aConfig, aStandards, aSemantics, aInput, aShould, aRequests>>
    /\ UNCHANGED <<mergerVars, ruleVars, filterVars, dedupVars, genVars, parseVars,
                 matchedVars, normVars, simVars, csvVars, versionVars, appVars, semVars>>

(***************************************************************************)
(* RuleEngine.getMatchedStandards (ruleEngine.ts 84-95)                    *)
(***************************************************************************)
\* What the map callback returns for one result: {...standard, match} when
\* find() yields an item, null otherwise.
Detail(standard, result) ==
    [isNull        |-> FALSE,
     standard_id   |-> standard.standard_id,
     standard_type |-> standard.standard_type,
     match         |-> result]

NullDetail(result) ==
    [isNull |-> TRUE, standard_id |-> Undefined, standard_type |-> Undefined,
     match |-> result]

\* Mutant: an unresolved id yields an item without catalog fields instead
\* of null.
MapDetailKeepUnresolved(standards, result) ==
    Detail(FindStandard(standards, result.standard_id), result)

MapDetail(standards, result) ==
    LET standard == FindStandard(standards, result.standard_id)
    IN  IF standard # NoStandard THEN Detail(standard, result)
        ELSE NullDetail(result)

getMatchedStandards(standards, results) ==
    LET mapped == [n \in 1..Len(results) |-> MapDetail(standards, results[n])]
    IN  FilterByHits(mapped, [n \in 1..Len(mapped) |-> ~mapped[n].isNull])

\* A second catalog item of id A, after the first.
ItemA2 == [standard_id |-> "A", standard_type |-> "SAFE"]

MatchedCatalogPool == {<<>>, <<ItemA>>, <<ItemB>>, <<ItemB, ItemA, ItemA2>>}

MatchedInit ==
    /\ msStandards \in MatchedCatalogPool
    /\ msResults \in SeqsUpTo(ResultPool, MaxResults)
    /\ msReturned = <<>>
    /\ msPc = "start"

MatchedIdle ==
    /\ msStandards = <<>>
    /\ msResults = <<>>
    /\ msReturned = <<>>
    /\ msPc = "start"

GetMatchedStandards ==
    /\ msPc = "start"
    /\ msReturned' = getMatchedStandards(msStandards, msResults)
    /\ msPc' = "done"
    /\ UNCHANGED <<msStandards, msResults>>
    /\ UNCHANGED <<mergerVars, ruleVars, filterVars, dedupVars, genVars, parseVars,
                   advisorVars, normVars, simVars, csvVars, versionVars, appVars,
                   semVars>>

(***************************************************************************)
(* normalizeString (filter.ts 96-105, ruleEngine.ts 76-81)                 *)
(***************************************************************************)
\* Characters of the strings handed to the normalizers: letters of both
\* cases, a whitespace character and the two separators.
NormChars == {"a", "A", " ", "-", "_"}

NormInit ==
    /\ nStr \in SeqsUpTo(NormChars, MaxChars)
    /\ nOptions \in {[caseSensitive |-> c, exactMatch |-> FALSE,
                      fuzzyMatchThreshold |-> DefaultFuzzyMatchThreshold] :
                        c \in BOOLEAN}
    /\ nFilterOut = <<>>
    /\ nRuleOut = <<>>
    /\ nPc = "start"

NormIdle ==
    /\ nStr = <<>>
    /\ nOptions = DefaultFilterOptions
    /\ nFilterOut = <<>>
    /\ nRuleOut = <<>>
    /\ nPc = "start"

NormalizeString ==
    /\ nPc = "start"
    /\ nFilterOut' = normalizeString(nStr, nOptions)
    /\ nRuleOut' = RuleNormalizeString(nStr)
    /\ nPc' = "done"
    /\ UNCHANGED <<nStr, nOptions>>
    /\ UNCHANGED <<mergerVars, ruleVars, filterVars, dedupVars, genVars, parseVars,
                   advisorVars, matchedVars, simVars, csvVars, versionVars, appVars,
                   semVars>>

(***************************************************************************)
(* ContentFilter.calculateSimilarity (filter.ts 108-139)                   *)
(***************************************************************************)
SimChars == {"a", "b", "c"}

SimInit ==
    /\ sStr1 \in SeqsUpTo(SimChars, MaxChars)
    /\ sStr2 \in SeqsUpTo(SimChars, MaxChars)
    /\ sScore = [num |-> 0, den |-> 1]
    /\ sPc = "start"

SimIdle ==
    /\ sStr1 = <<>>
    /\ sStr2 = <<>>
    /\ sScore = [num |-> 0, den |-> 1]
    /\ sPc = "start"

CalculateSimilarity ==
    /\ sPc = "start"
    /\ sScore' = calculateSimilarity(sStr1, sStr2)
    /\ sPc' = "done"
    /\ UNCHANGED <<sStr1, sStr2>>
    /\ UNCHANGED <<mergerVars, ruleVars, filterVars, dedupVars, genVars, parseVars,
                   advisorVars, matchedVars, normVars, csvVars, versionVars, appVars,
                   semVars>>

(***************************************************************************)
(* Exporter.generateCSVContent (exporter.ts 108-156)                       *)
(* A property name (standard_id, match_rule_id, ...) is one token: it      *)
(* holds no comma, quote or line feed and is only ever joined.             *)
(***************************************************************************)
\* The members prepareExportData gives every row (exporter.ts 131-138).
StandardMembers(item) ==
    << <<"standard_id", item.standard.standard_id>>,
       <<"standard_name", item.standard.standard_name>>,
       <<"standard_type", item.standard.standard_type>>,
       <<"industry", StringValue(Join(item.standard.industry, <<",">>))>>,
       <<"project_type", StringValue(Join(item.standard.project_type, <<",">>))>>,
       <<"priority", item.standard.priority>>,
       <<"description", item.standard.description>>,
       <<"source", item.standard.source>> >>

\* if (config.includeSources) { ... } (exporter.ts 142-146)
SourceMembers(item, config) ==
    IF config.includeSources
    THEN << <<"match_source", item.match.source>>,
            <<"match_rule_id", item.match.rule_id>>,
            <<"match_reason", item.match.reason>> >>
    ELSE <<>>

\* if (config.includeMetadata) { ... } (exporter.ts 149-152); now is what
\* new Date().toISOString() yields.
MetadataMembers(config, now) ==
    IF config.includeMetadata
    THEN << <<"export_date", StringValue(now)>>,
            <<"export_format", StringValue(<<config.format>>)>> >>
    ELSE <<>>

prepareExportData(items, config, now) ==
    [n \in 1..Len(items) |->
        StandardMembers(items[n]) \o SourceMembers(items[n], config)
            \o MetadataMembers(config, now)]

\* row[header]
MemberValue(row, header) ==
    IF \E n \in 1..Len(row) : row[n][1] = header
    THEN row[CHOOSE n \in 1..Len(row) : row[n][1] = header][2]
    ELSE UndefinedValue

\* strValue.replace(/"/g, '""')
RECURSIVE DoubleQuotes(_)
DoubleQuotes(str) ==
    IF str = <<>> THEN <<>>
    ELSE (IF Head(str) = "\"" THEN <<"\"", "\"">> ELSE <<Head(str)>>)
         \o DoubleQuotes(Tail(str))

\* JSON.stringify(value) of a value that is no string: the digits of a
\* number, undefined (no string) for undefined.
StringifyValue(value) ==
    IF value.type = "number" THEN StringValue(value.text) ELSE UndefinedValue

\* The callback of headers.map (exporter.ts 115-121): strValue.includes
\* throws a TypeError when strValue is undefined.
CsvField(value) ==
    LET strValue == IF value.type = "string" THEN value ELSE StringifyValue(value)
    IN  IF strValue.type = "undefined" THEN Thrown
        ELSE IF \E n \in 1..Len(strValue.text) : strValue.text[n] \in {",", "\"", "\n"}
             THEN Returned(StringValue(<<"\"">> \o DoubleQuotes(strValue.text) \o <<"\"">>))
             ELSE Returned(StringValue(strValue.text))

\* Exporter.generateCSVContent
generateCSVContent(items, config, now) ==
    LET data == prepareExportData(items, config, now)
    IN  IF Len(data) = 0 THEN Returned(StringValue(<<>>))
        ELSE LET headers == ObjectKeys(data[1])
                 fields  == [r \in 1..Len(data) |->
                                [h \in 1..Len(headers) |->
                                    CsvField(MemberValue(data[r], headers[h]))]]
             IN  IF \E r \in 1..Len(data) : \E h \in 1..Len(headers) : fields[r][h].threw
                 THEN Thrown
                 ELSE Returned(StringValue(
                        Join(<<Join([h \in 1..Len(headers) |-> <<headers[h]>>], <<",">>)>>
                             \o [r \in 1..Len(data) |->
                                   Join([h \in 1..Len(headers) |-> fields[r][h].value.text],
                                        <<",">>)],
                             <<"\n">>)))

\* Catalog items: a plain name, a name with a comma and a quote, a name
\* with a line feed; one industry or two.
CsvStandardPool ==
    {[standard_id |-> StringValue(<<"A">>), standard_name |-> StringValue(name),
      standard_type |-> StringValue(<<"Q">>), industry |-> ind,
      project_type |-> <<>>, priority |-> NumberValue(<<"1">>),
      description |-> StringValue(<<"d">>), source |-> StringValue(<<"s">>)] :
        name \in {<<"n">>, <<"n", ",", "\"">>, <<"n", "\n", "m">>},
        ind \in {<< <<"i">> >>, << <<"i">>, <<"j">> >>}}

\* Matches of the three layers: a rule match carries rule_id and reason, an
\* AI match a reason only, a manual match neither.
CsvMatchPool ==
    {[standard_id |-> StringValue(<<"A">>), source |-> StringValue(<<"rule">>),
      rule_id |-> StringValue(<<"R", "1">>), reason |-> StringValue(<<"m">>)],
     [standard_id |-> StringValue(<<"A">>), source |-> StringValue(<<"ai">>),
      rule_id |-> UndefinedValue, reason |-> StringValue(<<"f", ",", "g">>)],
     [standard_id |-> StringValue(<<"A">>), source |-> StringValue(<<"manual">>),
      rule_id |-> UndefinedValue, reason |-> UndefinedValue]}

ExportItemPool == {[standard |-> st, match |-> m] : st \in CsvStandardPool, m \in CsvMatchPool}

ExportConfigPool ==
    {[format |-> "csv", includeSources |-> src, includeMetadata |-> meta] :
        src \in BOOLEAN, meta \in BOOLEAN}

\* What new Date().toISOString() may yield.
IsoDates == {<<"d", "1">>, <<"d", "2">>}

CsvInit ==
    /\ cItems \in SeqsUpTo(ExportItemPool, MaxItems)
    /\ cConfig \in ExportConfigPool
    /\ cOutput = Returned(StringValue(<<>>))
    /\ cPc = "start"

CsvIdle ==
    /\ cItems = <<>>
    /\ cConfig = [format |-> "csv", includeSources |-> FALSE, includeMetadata |-> FALSE]
    /\ cOutput = Returned(StringValue(<<>>))
    /\ cPc = "start"

GenerateCSVContent ==
    /\ cPc = "start"
    /\ \E now \in IsoDates : cOutput' = generateCSVContent(cItems, cConfig, now)
    /\ cPc' = "done"
    /\ UNCHANGED <<cItems, cConfig>>
    /\ UNCHANGED <<mergerVars, ruleVars, filterVars, dedupVars, genVars, parseVars,
                   advisorVars, matchedVars, normVars, simVars, versionVars, appVars,
                   semVars>>

(***************************************************************************)
(* VersionManager (exporter.ts 220-372)                                    *)
(***************************************************************************)
\* The content of meta/version.json: absent, a VersionInfo, or the
\* remains of a write that failed half way.
NoVersion == [kind |-> "none", version |-> <<>>, files |-> <<>>]
VersionFile(info) == [kind |-> "json", version |-> info.version, files |-> info.files]
TruncatedVersion == [kind |-> "truncated", version |-> <<>>, files |-> <<>>]

\* VersionManager.getCurrentVersion: null when the file is absent or
\* JSON.parse throws.
getCurrentVersion(local) == IF local.kind = "json" THEN local ELSE NoVersion

\* Number(part) of a string of digits; Number('') is 0.
RECURSIVE ToNumber(_)
ToNumber(part) ==
    IF part = <<>> THEN 0
    ELSE 10 * ToNumber(SubSeq(part, 1, Len(part) - 1))
         + (CHOOSE d \in 0..9 : DigitChars[d + 1] = part[Len(part)])

\* v.split('.').map(Number)
VersionParts(v) ==
    LET parts == SplitChar(v, ".")
    IN  [n \in 1..Len(parts) |-> ToNumber(parts[n])]

\* The loop of compareVersions from position i on (exporter.ts 264-270).
RECURSIVE CompareFrom(_, _, _)
CompareFrom(v1Parts, v2Parts, i) ==
    IF i > Len(v1Parts) /\ i > Len(v2Parts) THEN 0
    ELSE LET v1Part == IF i <= Len(v1Parts) THEN v1Parts[i] ELSE 0
             v2Part == IF i <= Len(v2Parts) THEN v2Parts[i] ELSE 0
         IN  IF v1Part > v2Part THEN 1
             ELSE IF v1Part < v2Part THEN 0 - 1
             ELSE CompareFrom(v1Parts, v2Parts, i + 1)

compareVersions(v1, v2) == CompareFrom(VersionParts(v1), VersionParts(v2), 1)

\* What checkForUpdates returns once the remote version is fetched
\* (exporter.ts 253-274).
UpdateAvailable(local, remoteVersion) ==
    LET currentVersion == getCurrentVersion(local)
    IN  IF currentVersion = NoVersion THEN TRUE
        ELSE compareVersions(currentVersion.version, remoteVersion.version) < 0

\* catch (error) { return false } in the given step (exporter.ts 327-330).
Failed(step, index, local) ==
    [pc |-> "done", index |-> index, local |-> local, result |-> "false",
     failure |-> step]

\* Mutant: the version record is written before the files are fetched.
ContinueLoopVersionFirst(index, remoteVersion, local, versionWrite) ==
    IF index <= Len(remoteVersion.files)
    THEN [pc |-> "fetchFile", index |-> index, local |-> VersionFile(remoteVersion),
          result |-> "pending", failure |-> "none"]
    ELSE [pc |-> "done", index |-> index, local |-> VersionFile(remoteVersion),
          result |-> "true", failure |-> "none"]

\* updateKnowledgeBase from the head of the for loop at position index up
\* to its next await or its return (exporter.ts 296-326); versionWrite is
\* how writing meta/version.json ends: "ok", "unchanged" (it throws before
\* the file is touched) or "truncated" (it throws after).
ContinueLoop(index, remoteVersion, local, versionWrite) ==
    IF index <= Len(remoteVersion.files)
    THEN [pc |-> "fetchFile", index |-> index, local |-> local,
          result |-> "pending", failure |-> "none"]
    ELSE IF versionWrite = "ok"
    THEN [pc |-> "done", index |-> index, local |-> VersionFile(remoteVersion),
          result |-> "true", failure |-> "none"]
    ELSE Failed("writeVersion", index,
                IF versionWrite = "truncated" THEN TruncatedVersion ELSE local)

NotChecked == [asked |-> FALSE, fetched |-> FALSE, result |-> FALSE]

FileNames == {"standards_master.json", "rules_mapping.json"}

RemoteVersionPool ==
    {[version |-> v, files |-> f] :
        v \in {<<"1", ".", "0">>, <<"1", ".", "1">>, <<"1", ".", "1", "0">>},
        f \in SeqsUpTo(FileNames, MaxFiles)}

LocalVersionPool ==
    {NoVersion}
    \cup {VersionFile([version |-> v, files |-> <<>>]) :
            v \in {<<"1">>, <<"1", ".", "1">>, <<"1", ".", "2">>}}

VersionInit ==
    /\ vRemote \in RemoteVersionPool
    /\ vLocal \in LocalVersionPool
    /\ vLocalStart = vLocal
    /\ vKb = {}
    /\ vIndex = 1
    /\ vResult = "none"
    /\ vFailure = "none"
    /\ vCheck = NotChecked
    /\ vPc = "start"

VersionIdle ==
    /\ vRemote = [version |-> <<>>, files |-> <<>>]
    /\ vLocal = NoVersion
    /\ vLocalStart = NoVersion
    /\ vKb = {}
    /\ vIndex = 1
    /\ vResult = "none"
    /\ vFailure = "none"
    /\ vCheck = NotChecked
    /\ vPc = "start"

\* The variables of the update take the values of the record next.
UpdateMoves(next) ==
    /\ vPc' = next.pc
    /\ vIndex' = next.index
    /\ vLocal' = next.local
    /\ vResult' = next.result
    /\ vFailure' = next.failure

VersionFrame ==
    UNCHANGED <<mergerVars, ruleVars, filterVars, dedupVars, genVars, parseVars,
                advisorVars, matchedVars, normVars, simVars, csvVars, appVars,
                semVars>>

\* updateKnowledgeBase is called: it runs up to await fetch('/meta/version.json').
UpdateKnowledgeBase ==
    /\ vPc = "start"
    /\ vPc' = "fetchVersion"
    /\ vResult' = "pending"
    /\ UNCHANGED <<vRemote, vLocal, vLocalStart, vKb, vIndex, vFailure, vCheck>>
    /\ VersionFrame

\* The fetch of the remote version settles: resolved with ok, resolved
\* without ok, or rejected (exporter.ts 288-291).
VersionFetchSettles ==
    /\ vPc = "fetchVersion"
    /\ \E outcome \in {"ok", "notOk", "rejected"} :
          IF outcome = "ok"
          THEN /\ vPc' = "jsonVersion"
               /\ UNCHANGED <<vIndex, vLocal, vResult, vFailure>>
          ELSE UpdateMoves(Failed("fetchVersion", vIndex, vLocal))
    /\ UNCHANGED <<vRemote, vLocalStart, vKb, vCheck>>
    /\ VersionFrame

\* versionResponse.json() settles; on success the loop runs to its first
\* fetch, or past the loop when no file is listed (exporter.ts 293-299).
VersionJsonSettles ==
    /\ vPc = "jsonVersion"
    /\ \E outcome \in {"ok", "rejected"} :
       \E versionWrite \in {"ok", "unchanged", "truncated"} :
          IF outcome = "ok"
          THEN UpdateMoves(ContinueLoop(1, vRemote, vLocal, versionWrite))
          ELSE UpdateMoves(Failed("jsonVersion", vIndex, vLocal))
    /\ UNCHANGED <<vRemote, vLocalStart, vKb, vCheck>>
    /\ VersionFrame

\* The fetch of one file settles (exporter.ts 301-304).
FileFetchSettles ==
    /\ vPc = "fetchFile"
    /\ \E outcome \in {"ok", "notOk", "rejected"} :
          IF outcome = "ok"
          THEN /\ vPc' = "textFile"
               /\ UNCHANGED <<vIndex, vLocal, vResult, vFailure>>
          ELSE UpdateMoves(Failed("fetchFile", vIndex, vLocal))
    /\ UNCHANGED <<vRemote, vLocalStart, vKb, vCheck>>
    /\ VersionFrame

\* fileResponse.text() settles; on success the file is written and the
\* loop goes on to the next fetch or to the version record
\* (exporter.ts 306-325).
FileTextSettles ==
    /\ vPc = "textFile"
    /\ \E outcome \in {"ok", "rejected", "writeFails"} :
       \E versionWrite \in {"ok", "unchanged", "truncated"} :
          IF outcome = "ok"
          THEN /\ vKb' = vKb \cup {vRemote.files[vIndex]}
               /\ UpdateMoves(ContinueLoop(vIndex + 1, vRemote, vLocal, versionWrite))
          ELSE /\ vKb' = vKb
               /\ UpdateMoves(Failed(IF outcome = "rejected" THEN "textFile"
                                     ELSE "writeFile", vIndex, vLocal))
    /\ UNCHANGED <<vRemote, vLocalStart, vCheck>>
    /\ VersionFrame

\* A later checkForUpdates, its fetch succeeding or not
\* (exporter.ts 245-282).
CheckForUpdates ==
    /\ vPc = "done"
    /\ ~vCheck.asked
    /\ \E fetched \in BOOLEAN :
          vCheck' = [asked |-> TRUE, fetched |-> fetched,
                     result |-> IF fetched THEN UpdateAvailable(vLocal, vRemote)
                                ELSE FALSE]
    /\ UNCHANGED <<vRemote, vLocal, vLocalStart, vKb, vIndex, vResult, vFailure, vPc>>
    /\ VersionFrame

(***************************************************************************)
(* App (App.tsx 7-68)                                                      *)
(***************************************************************************)
\* useState<ConfigType | null>: null, or the configuration cfg.
NullConfig ==
    [isNull |-> TRUE, industries |-> <<>>, projectTypes |-> <<>>, modules |-> <<>>,
     useAI |-> FALSE, specialRequirements |-> <<>>]
ConfigValue(cfg) ==
    [isNull |-> FALSE, industries |-> cfg.industries,
     projectTypes |-> cfg.projectTypes, modules |-> cfg.modules,
     useAI |-> cfg.useAI, specialRequirements |-> cfg.specialRequirements]

\* The view state of App.
ViewState == [view |-> appView, isConfigOpen |-> appIsConfigOpen, config |-> appConfig]

handleGenerateClick(state) == [state EXCEPT !.isConfigOpen = TRUE]

\* Mutant: the configuration is not stored.
handleConfirmConfigNoSetConfig(state, cfg) ==
    [state EXCEPT !.isConfigOpen = FALSE, !.view = "result"]

handleConfirmConfig(state, cfg) ==
    [state EXCEPT !.config = ConfigValue(cfg), !.isConfigOpen = FALSE,
                  !.view = "result"]

handleBack(state) == [state EXCEPT !.view = "home", !.config = NullConfig]

\* onClose={() => setIsConfigOpen(false)}
onClose(state) == [state EXCEPT !.isConfigOpen = FALSE]

\* What /db.json can hold.
DbPool == {<<>>} \cup {<<s>> : s \in SystemPool}

AppInit ==
    /\ appView = "home"
    /\ appIsConfigOpen = FALSE
    /\ appConfig = NullConfig
    /\ appAllSystems = <<>>
    /\ appLoading = TRUE
    /\ appLast = "none"
    /\ appPc = "fetching"

AppIdle ==
    /\ appView = "home"
    /\ appIsConfigOpen = FALSE
    /\ appConfig = NullConfig
    /\ appAllSystems = <<>>
    /\ appLoading = TRUE
    /\ appLast = "none"
    /\ appPc = "start"

\* The handler named last ran and left the view state next.
ViewMoves(last, next) ==
    /\ appView' = next.view
    /\ appIsConfigOpen' = next.isConfigOpen
    /\ appConfig' = next.config
    /\ appLast' = last
    /\ UNCHANGED <<appAllSystems, appLoading, appPc>>

AppFrame ==
    UNCHANGED <<mergerVars, ruleVars, filterVars, dedupVars, genVars, parseVars,
                advisorVars, matchedVars, normVars, simVars, csvVars, versionVars,
                semVars>>

\* The fetch of /db.json started by useEffect settles (App.tsx 14-25).
LoadDb ==
    /\ appPc = "fetching"
    /\ \E ok \in BOOLEAN : \E data \in DbPool :
          appAllSystems' = IF ok THEN data ELSE appAllSystems
    /\ appLoading' = FALSE
    /\ appPc' = "settled"
    /\ UNCHANGED <<appView, appIsConfigOpen, appConfig, appLast>>
    /\ AppFrame

HandleGenerateClick ==
    /\ appPc # "start"
    /\ ViewMoves("generate", handleGenerateClick(ViewState))
    /\ AppFrame

\* GenerateConfig hands over the selections of its form (Home.tsx 535-543).
HandleConfirmConfig ==
    /\ appPc # "start"
    /\ \E cfg \in GenConfigPool :
          ViewMoves("confirm", handleConfirmConfig(ViewState, cfg))
    /\ AppFrame

HandleBack ==
    /\ appPc # "start"
    /\ ViewMoves("back", handleBack(ViewState))
    /\ AppFrame

OnClose ==
    /\ appPc # "start"
    /\ ViewMoves("close", onClose(ViewState))
    /\ AppFrame

(***************************************************************************)
(* parseSemanticDescriptions (exporter.ts 451-504)                         *)
(***************************************************************************)
\* The class [A-Z0-9\-]
IdClass == {"A", "B", "T", "-"} \cup {DigitChars[d] : d \in 1..10}

\* line.match(/^##\s+([A-Z0-9\-]+)\s+(.+)$/): whether it matched, and
\* its two groups. Each + takes its whole run: an id that ends before a
\* character outside \s cannot be shortened into a match.
HeadingMatch(line) ==
    LET afterHashes == SubSeq(line, 3, Len(line))
        afterSpace  == DropRun(afterHashes, Whitespace)
        afterId     == DropRun(afterSpace, IdClass)
        text        == DropRun(afterId, Whitespace)
    IN  [matched |-> /\ Len(line) >= 2
                     /\ line[1] = "#"
                     /\ line[2] = "#"
                     /\ Len(afterSpace) < Len(afterHashes)
                     /\ Len(afterId) < Len(afterSpace)
                     /\ Len(text) < Len(afterId)
                     /\ text # <<>>
                     /\ \A i \in 1..Len(text) : text[i] \notin {"\n", "\r"},
         id      |-> SubSeq(afterSpace, 1, Len(afterSpace) - Len(afterId)),
         text    |-> text]

ApplicableMarker     == <<"shi", "yong", "chang", "jing", "maohao">>
NotRecommendedMarker ==
    <<"bu", "jian", "yi", "shi", "yong", "chang", "jing", "maohao">>

\* line.startsWith('- ')
StartsWithDash(line) == Len(line) >= 2 /\ line[1] = "-" /\ line[2] = " "

\* let currentDescription: SemanticDescription | null = null
NullDescription ==
    [isNull |-> TRUE, standard_id |-> <<>>, content |-> <<>>,
     applicable_scenarios |-> <<>>, not_recommended_scenarios |-> <<>>]

\* The SemanticDescription held by currentDescription.
Pushed(description) ==
    [standard_id |-> description.standard_id, content |-> description.content,
     applicable_scenarios |-> description.applicable_scenarios,
     not_recommended_scenarios |-> description.not_recommended_scenarios]

\* descriptions after: if (currentDescription) descriptions.push(...)
PushCurrent(state) ==
    IF state.currentDescription.isNull THEN state.descriptions
    ELSE Append(state.descriptions, Pushed(state.currentDescription))

\* Mutant: a heading leaves the current section as it is.
StartDescriptionKeepSection(state, idMatch) ==
    [descriptions       |-> PushCurrent(state),
     currentDescription |-> [isNull |-> FALSE, standard_id |-> idMatch.id,
                             content |-> idMatch.text,
                             applicable_scenarios |-> <<>>,
                             not_recommended_scenarios |-> <<>>],
     currentSection     |-> state.currentSection]

\* The branch if (idMatch) (exporter.ts 464-475).
StartDescription(state, idMatch) ==
    [descriptions       |-> PushCurrent(state),
     currentDescription |-> [isNull |-> FALSE, standard_id |-> idMatch.id,
                             content |-> idMatch.text,
                             applicable_scenarios |-> <<>>,
                             not_recommended_scenarios |-> <<>>],
     currentSection     |-> "null"]

\* The branch of a scenario item (exporter.ts 488-495).
AddScenario(state, line) ==
    LET scenario == trim(SubSeq(line, 3, Len(line)))
    IN  IF state.currentSection = "applicable"
        THEN [state EXCEPT !.currentDescription.applicable_scenarios =
                              Append(@, scenario)]
        ELSE IF state.currentSection = "not_recommended"
        THEN [state EXCEPT !.currentDescription.not_recommended_scenarios =
                              Append(@, scenario)]
        ELSE state

\* The callback of lines.forEach (exporter.ts 459-496).
SemanticLine(state, rawLine) ==
    LET line    == trim(rawLine)
        idMatch == HeadingMatch(line)
    IN  IF idMatch.matched THEN StartDescription(state, idMatch)
        ELSE IF line = ApplicableMarker
        THEN [state EXCEPT !.currentSection = "applicable"]
        ELSE IF line = NotRecommendedMarker
        THEN [state EXCEPT !.currentSection = "not_recommended"]
        ELSE IF /\ ~state.currentDescription.isNull
                /\ state.currentSection # "null"
                /\ StartsWithDash(line)
        THEN AddScenario(state, line)
        ELSE state

RECURSIVE SemanticLines(_, _)
SemanticLines(state, lines) ==
    IF lines = <<>> THEN state
    ELSE SemanticLines(SemanticLine(state, Head(lines)), Tail(lines))

parseSemanticDescriptions(lines) ==
    PushCurrent(SemanticLines([descriptions |-> <<>>,
                               currentDescription |-> NullDescription,
                               currentSection |-> "null"], lines))

\* Lines of a semantic_descriptions.md: two headings, a heading with a
\* lower-case id, the two section markers, two scenario items and a
\* dash with no space after it.
SemanticLinePool ==
    {<<"#", "#", " ", "A", " ", "x">>,
     <<" ", "#", "#", " ", " ", "B", "-", "1", " ", "y", " ", "z">>,
     <<"#", "#", " ", "a", " ", "x">>,
     ApplicableMarker,
     <<" ">> \o NotRecommendedMarker,
     <<"-", " ", "x">>,
     <<" ", "-", " ", " ", "y", " ">>,
     <<"-", "x">>}

SemInit ==
    /\ semLines \in SeqsUpTo(SemanticLinePool, MaxSemLines)
    /\ semOutput = <<>>
    /\ semPc = "start"

SemIdle ==
    /\ semLines = <<>>
    /\ semOutput = <<>>
    /\ semPc = "start"

ParseSemanticDescriptions ==
    /\ semPc = "start"
    /\ semOutput' = parseSemanticDescriptions(semLines)
    /\ semPc' = "done"
    /\ UNCHANGED semLines
    /\ UNCHANGED <<mergerVars, ruleVars, filterVars, dedupVars, genVars, parseVars,
                   advisorVars, matchedVars, normVars, simVars, csvVars,
                   versionVars, appVars>>

(***************************************************************************)
(* Components of the later sections                                        *)
(***************************************************************************)

(***************************************************************************)
(* Specifications: one per component, the other components idle           *)
(***************************************************************************)
\* The components of the earlier sections, before any call.
EarlierIdle ==
    MergerIdle /\ RuleIdle /\ FilterIdle /\ DedupIdle
    /\ GenIdle /\ ParseIdle /\ AdvisorIdle

\* The components of the later sections, before any call.
LaterIdle ==
    MatchedIdle /\ NormIdle /\ SimIdle /\ CsvIdle /\ VersionIdle /\ AppIdle /\ SemIdle

InitMerger ==
    MergerInit /\ RuleIdle /\ FilterIdle /\ DedupIdle
    /\ GenIdle /\ ParseIdle /\ AdvisorIdle /\ LaterIdle
NextMerger == MergeResults
SpecMerger == InitMerger /\ [][NextMerger]_vars

InitRuleEngine ==
    MergerIdle /\ RuleInit /\ FilterIdle /\ DedupIdle
    /\ GenIdle /\ ParseIdle /\ AdvisorIdle /\ LaterIdle
NextRuleEngine == MatchRules
SpecRuleEngine == InitRuleEngine /\ [][NextRuleEngine]_vars

InitFilter ==
    MergerIdle /\ RuleIdle /\ FilterInit /\ DedupIdle
    /\ GenIdle /\ ParseIdle /\ AdvisorIdle /\ LaterIdle
NextFilter == FilterContent
SpecFilter == InitFilter /\ [][NextFilter]_vars

InitDedup ==
    MergerIdle /\ RuleIdle /\ FilterIdle /\ DedupInit
    /\ GenIdle /\ ParseIdle /\ AdvisorIdle /\ LaterIdle
NextDedup == DeduplicateContent
SpecDedup == InitDedup /\ [][NextDedup]_vars

InitGeneration ==
    MergerIdle /\ RuleIdle /\ FilterIdle /\ DedupIdle
    /\ GenInit /\ ParseIdle /\ AdvisorIdle /\ LaterIdle
NextGeneration == GenerateModules
SpecGeneration == InitGeneration /\ [][NextGeneration]_vars

InitParse ==
    MergerIdle /\ RuleIdle /\ FilterIdle /\ DedupIdle
    /\ GenIdle /\ ParseInit /\ AdvisorIdle /\ LaterIdle
NextParse == ParseAIResponse
SpecParse == InitParse /\ [][NextParse]_vars

InitAdvisor ==
    MergerIdle /\ RuleIdle /\ FilterIdle /\ DedupIdle
    /\ GenIdle /\ ParseIdle /\ AdvisorInit /\ LaterIdle
NextAdvisor == ShouldUseAI \/ GetRecommendations \/ FetchSettles \/ JsonSettles
SpecAdvisor == InitAdvisor /\ [][NextAdvisor]_vars

InitMatched ==
    EarlierIdle /\ MatchedInit /\ NormIdle /\ SimIdle /\ CsvIdle
    /\ VersionIdle /\ AppIdle /\ SemIdle
NextMatched == GetMatchedStandards
SpecMatched == InitMatched /\ [][NextMatched]_vars

InitNorm ==
    EarlierIdle /\ MatchedIdle /\ NormInit /\ SimIdle /\ CsvIdle
    /\ VersionIdle /\ AppIdle /\ SemIdle
NextNorm == NormalizeString
SpecNorm == InitNorm /\ [][NextNorm]_vars

InitSim ==
    EarlierIdle /\ MatchedIdle /\ NormIdle /\ SimInit /\ CsvIdle
    /\ VersionIdle /\ AppIdle /\ SemIdle
NextSim == CalculateSimilarity
SpecSim == InitSim /\ [][NextSim]_vars

InitCsv ==
    EarlierIdle /\ MatchedIdle /\ NormIdle /\ SimIdle /\ CsvInit
    /\ VersionIdle /\ AppIdle /\ SemIdle
NextCsv == GenerateCSVContent
SpecCsv == InitCsv /\ [][NextCsv]_vars

InitVersion ==
    EarlierIdle /\ MatchedIdle /\ NormIdle /\ SimIdle /\ CsvIdle
    /\ VersionInit /\ AppIdle /\ SemIdle
NextVersion ==
    \/ UpdateKnowledgeBase
    \/ VersionFetchSettles
    \/ VersionJsonSettles
    \/ FileFetchSettles
    \/ FileTextSettles
    \/ CheckForUpdates
SpecVersion == InitVersion /\ [][NextVersion]_vars

InitApp ==
    EarlierIdle /\ MatchedIdle /\ NormIdle /\ SimIdle /\ CsvIdle
    /\ VersionIdle /\ AppInit /\ SemIdle
NextApp ==
    \/ LoadDb
    \/ HandleGenerateClick
    \/ HandleConfirmConfig
    \/ HandleBack
    \/ OnClose
SpecApp == InitApp /\ [][NextApp]_vars

InitSem ==
    EarlierIdle /\ MatchedIdle /\ NormIdle /\ SimIdle /\ CsvIdle
    /\ VersionIdle /\ AppIdle /\ SemInit
NextSem == ParseSemanticDescriptions
SpecSem == InitSem /\ [][NextSem]_vars

(***************************************************************************)
(* Merger: properties                                                      *)
(***************************************************************************)
MergerDefault == mOptions = DefaultMergerOptions

\* ruleResults ++ aiResults ++ manualResults, as mergeResults concatenates.
AllInput == mInput.ruleResults \o mInput.aiResults \o mInput.manualResults

InputIds == {AllInput[i].standard_id : i \in 1..Len(AllInput)}

OutputAt(id) == {i \in 1..Len(mOutput) : mOutput[i].standard_id = id}

\* The MatchResult part of an output entry (without the attached item).
AsResult(e) == MkResult(e.standard_id, e.source, e.rule_id, e.reason)

\* C1: with default options, an id that ruleResults carries with source
\* 'rule' and aiResults carries with source 'ai' has exactly one output
\* entry, and that entry is a rule-sourced entry of ruleResults (its
\* rule_id and reason), never the AI one.
C1_RuleBeatsAI ==
    (mPc = "done" /\ MergerDefault) =>
        \A id \in StandardIds :
            ( /\ \E i \in 1..Len(mInput.ruleResults) :
                    /\ mInput.ruleResults[i].standard_id = id
                    /\ mInput.ruleResults[i].source = "rule"
              /\ \E i \in 1..Len(mInput.aiResults) :
                    /\ mInput.aiResults[i].standard_id = id
                    /\ mInput.aiResults[i].source = "ai" )
            => /\ Cardinality(OutputAt(id)) = 1
               /\ \A k \in OutputAt(id) :
                    /\ mOutput[k].source = "rule"
                    /\ AsResult(mOutput[k]) \in Range(mInput.ruleResults)

\* C1 witness: a merge whose rule list and AI list (each tagged by its own
\* layer) share an id, the AI list carrying a further id.
C1_Witness ==
    /\ mPc = "done" /\ MergerDefault
    /\ \E i \in 1..Len(mInput.ruleResults) : \E j \in 1..Len(mInput.aiResults) :
          /\ mInput.ruleResults[i].source = "rule"
          /\ mInput.aiResults[j].source = "ai"
          /\ mInput.ruleResults[i].standard_id = mInput.aiResults[j].standard_id
    /\ Len(mInput.aiResults) = 2
    /\ Len(mOutput) = 2

\* C2: with default options the output ids are exactly the ids of the three
\* input lists, each in exactly one output entry.
C2_UnionOnce ==
    (mPc = "done" /\ MergerDefault) =>
        /\ {mOutput[i].standard_id : i \in 1..Len(mOutput)} = InputIds
        /\ \A id \in InputIds : Cardinality(OutputAt(id)) = 1
        /\ Len(mOutput) = Cardinality(InputIds)

\* C2 witness: an id repeated inside one list and across lists, a second
\* id carried by the manual list only.
C2_Witness ==
    /\ mPc = "done" /\ MergerDefault
    /\ Len(mInput.ruleResults) = 2
    /\ mInput.ruleResults[1].standard_id = mInput.ruleResults[2].standard_id
    /\ Len(mInput.manualResults) = 1
    /\ mInput.manualResults[1].standard_id # mInput.ruleResults[1].standard_id
    /\ Len(mOutput) = 2

\* The positions of the concatenation that carry id with the highest
\* priority any entry of id has.
BestPositions(id) ==
    {i \in 1..Len(AllInput) :
        /\ AllInput[i].standard_id = id
        /\ \A j \in 1..Len(AllInput) :
              AllInput[j].standard_id = id =>
                  priority(AllInput[j].source) <= priority(AllInput[i].source)}

EarliestBest(id) ==
    AllInput[CHOOSE i \in BestPositions(id) : \A j \in BestPositions(id) : i <= j]

BestSource(id) ==
    CHOOSE s \in Sources :
        /\ \E e \in Range(AllInput) : e.standard_id = id /\ e.source = s
        /\ \A e \in Range(AllInput) : e.standard_id = id => priority(e.source) <= priority(s)

\* C4: with default options the output is sorted by source priority
\* descending, then by standard_id ascending; the (id, source) sequence is
\* the sorted listing of a set that the order inside the lists does not
\* change.
C4_Sorted ==
    (mPc = "done" /\ MergerDefault) =>
        /\ \A i \in 1..Len(mOutput) : \A j \in 1..Len(mOutput) :
              i < j =>
                 \/ priority(mOutput[i].source) > priority(mOutput[j].source)
                 \/ /\ mOutput[i].source = mOutput[j].source
                    /\ localeCompare(mOutput[i].standard_id, mOutput[j].standard_id) < 0
        /\ {<<mOutput[i].standard_id, mOutput[i].source>> : i \in 1..Len(mOutput)}
              = {<<id, BestSource(id)>> : id \in InputIds}

\* C4 witness: the input lists carry the ids in descending order and the
\* lower-priority source first within a list; the output is reordered.
C4_Witness ==
    /\ mPc = "done" /\ MergerDefault
    /\ Len(mInput.ruleResults) = 2
    /\ mInput.ruleResults[1].standard_id = "B"
    /\ mInput.ruleResults[2].standard_id = "A"
    /\ mInput.ruleResults[1].source = "rule"
    /\ mInput.ruleResults[2].source = "rule"
    /\ Len(mOutput) = 2
    /\ mOutput[1].standard_id = "A"

\* The catalog item an entry of the given id is joined with: the first
\* item of that id, none (undefined) when the catalog holds no such item.
CatalogItem(id) ==
    IF \E n \in 1..Len(mStandards) : mStandards[n].standard_id = id
    THEN mStandards[CHOOSE n \in 1..Len(mStandards) :
                        /\ mStandards[n].standard_id = id
                        /\ \A m \in 1..(n - 1) : mStandards[m].standard_id # id]
    ELSE NoStandard

\* Every output entry is an input entry, unchanged, joined with its catalog
\* item or with none, and every id of the inputs has an output entry.
JoinedNothingDropped ==
    /\ \A k \in 1..Len(mOutput) :
          /\ AsResult(mOutput[k]) \in Range(AllInput)
          /\ mOutput[k].standard = CatalogItem(mOutput[k].standard_id)
    /\ \A id \in InputIds : OutputAt(id) # {}

NormalizedSet(list) == {RuleNormalizeString(list[i]) : i \in 1..Len(list)}

\* The claim's reading of a match: per axis, the rule's list is empty or
\* shares a normalized value with the profile's selection.
AxisAccepts(ruleList, selection) ==
    ruleList = <<>> \/ NormalizedSet(ruleList) \cap NormalizedSet(selection) # {}

\* C5: a rule matches a profile iff each axis, taken on its own, is empty
\* in the rule or shares a normalized value with the profile; a rule with
\* both lists empty matches every profile, and a non-empty axis never
\* matches an empty selection on that axis.
C5_RuleMatchIff ==
    \A k \in 1..Len(rRules) :
        LET rule    == rRules[k]
            matches == doesRuleMatch(rule, rInput)
        IN  /\ matches <=>
                  ( /\ AxisAccepts(rule.industry, rInput.industries)
                    /\ AxisAccepts(rule.project_type, rInput.projectTypes) )
            /\ (rule.industry = <<>> /\ rule.project_type = <<>>) => matches
            /\ (rule.industry # <<>> /\ rInput.industries = <<>>) => ~matches
            /\ (rule.project_type # <<>> /\ rInput.projectTypes = <<>>) => ~matches

\* C5 witness: matchRules has run on a rule whose two axes match the
\* profile only after normalization (padding, case, separator), next to a
\* rule that fails on one axis alone.
C5_Witness ==
    /\ rPc = "done"
    /\ Len(rRules) = 2
    /\ rRules[1].industry = <<Shangye, ZhuzhaiPadded>>
    /\ rRules[1].project_type = <<TypeHyphenA>>
    /\ rInput = [industries |-> <<Zhuzhai>>, projectTypes |-> <<TypeUnderB, TypeSpaceA>>]
    /\ doesRuleMatch(rRules[1], rInput)
    /\ rRules[2].industry = <<>>
    /\ rRules[2].project_type = <<TypeHyphenA>>
    /\ rRules[2].rule_id # rRules[1].rule_id
    /\ Len(rMatched) = 2
    /\ rMatched[1].rule_id = rRules[1].rule_id

\* The positions of the rules that include id among the positions in hit.
RulesWith(hit, id) == {k \in hit : id \in Range(rRules[k].include_standard_ids)}

Least(S) == CHOOSE k \in S : \A l \in S : k <= l

\* One MatchResult per distinct id included by a matching rule, tagged
\* 'rule' with the rule_id of the first matching rule that includes it.
OnePerIdFirstRule ==
    rPc = "done" =>
        LET hit == {k \in 1..Len(rRules) : doesRuleMatch(rRules[k], rInput)}
        IN  /\ {rMatched[i].standard_id : i \in 1..Len(rMatched)}
                  = {id \in StandardIds : RulesWith(hit, id) # {}}
            /\ \A i \in 1..Len(rMatched) : \A j \in 1..Len(rMatched) :
                  rMatched[i].standard_id = rMatched[j].standard_id => i = j
            /\ \A i \in 1..Len(rMatched) :
                  /\ rMatched[i].source = "rule"
                  /\ rMatched[i].rule_id
                        = rRules[Least(RulesWith(hit, rMatched[i].standard_id))].rule_id
            /\ hit = {} => rMatched = <<>>

\* C6 witness: two matching rules with different ids include the same
\* standard id, one of them repeating it in its own list.
C6_Witness ==
    /\ rPc = "done"
    /\ Len(rRules) = 2
    /\ rRules[1].rule_id # rRules[2].rule_id
    /\ rRules[1].include_standard_ids = <<"B", "B">>
    /\ rRules[2].include_standard_ids = <<"A", "B">>
    /\ doesRuleMatch(rRules[1], rInput)
    /\ doesRuleMatch(rRules[2], rInput)
    /\ Len(rMatched) = 2
    /\ rMatched[1].rule_id = rRules[1].rule_id
    /\ rMatched[2].rule_id = rRules[2].rule_id

\* The wildcard rule R1 including [A, B], matched against the empty
\* profile, yields A and B tagged rule/R1.
WildcardExample ==
    ( /\ rPc = "done"
      /\ rRules = <<[rule_id |-> "R1", industry |-> <<>>, project_type |-> <<>>,
                     include_standard_ids |-> <<"A", "B">>]>>
      /\ rInput = EmptyProfile )
    => rMatched = <<MkResult("A", "rule", "R1", "match R1"),
                    MkResult("B", "rule", "R1", "match R1")>>

\* C6: matchRules emits exactly one MatchResult per distinct id included
\* by at least one matching rule, tagged 'rule' with the rule_id of the
\* first matching rule (in rule-list order) that includes it; no id twice,
\* nothing when no rule matches; and the wildcard example yields A and B
\* tagged rule/R1.
C6_MatchRules == OnePerIdFirstRule /\ WildcardExample

(***************************************************************************)
(* ContentFilter: properties                                               *)
(***************************************************************************)
IndustryKey    == findRelevantColumn(fKeys, IndustryKeywords, fOptions)
ProjectTypeKey == findRelevantColumn(fKeys, ProjectTypeKeywords, fOptions)

\* What the located-column test reads in a row: "" for a blank cell (a
\* missing or empty one).
IndustryVal(row)    == CellOrEmpty(RowGet(row, IndustryKey))
ProjectTypeVal(row) == CellOrEmpty(RowGet(row, ProjectTypeKey))

Retained(row) == row \in Range(fOutput)

\* The universal markers (the inline filter's list, Result.tsx 46).
UniversalMarkers == {Tongyong, <<"quan">>}

HoldsUniversalMarker(val) == \E u \in UniversalMarkers : includes(val, u)

\* C7: a row whose located industry column holds a universal marker is
\* retained when the profile selects industries the cell does not contain
\* (the project-type axis not being what rejects it).
C7_UniversalMarkerRetained ==
    ( /\ fPc = "done"
      /\ fOptions = DefaultFilterOptions
      /\ fInput.industries # <<>>
      /\ IndustryKey # NoKey ) =>
        \A i \in 1..Len(fContent) :
            ( /\ HoldsUniversalMarker(IndustryVal(fContent[i]))
              /\ ProjectTypeKey = NoKey \/ ProjectTypeVal(fContent[i]) = <<>> )
            => Retained(fContent[i])

\* C8: each axis is matched against its own selection: a retained row's
\* non-blank industry cell matches one of the selected industries, and its
\* non-blank project-type cell one of the selected project types.
C8_AxisOwnSelection ==
    fPc = "done" =>
        \A k \in 1..Len(fOutput) :
            /\ ( /\ IndustryKey # NoKey
                 /\ fInput.industries # <<>>
                 /\ IndustryVal(fOutput[k]) # <<>> )
               => doesValueMatch(IndustryVal(fOutput[k]), fInput.industries, fOptions)
            /\ ( /\ ProjectTypeKey # NoKey
                 /\ fInput.projectTypes # <<>>
                 /\ ProjectTypeVal(fOutput[k]) # <<>> )
               => doesValueMatch(ProjectTypeVal(fOutput[k]), fInput.projectTypes, fOptions)

\* C9: for a profile with no industries and no project types the filter
\* returns its rows as they are: all of them, in order, duplicates kept,
\* whatever the keys.
C9_IdentityOnEmptyProfile ==
    (fPc = "done" /\ fInput.industries = <<>> /\ fInput.projectTypes = <<>>)
        => fOutput = fContent

\* C9 witness: the empty profile on a table whose industry column is
\* located and whose two rows are the same row with a non-blank cell.
C9_Witness ==
    /\ fPc = "done"
    /\ fInput = EmptyProfile
    /\ IndustryKey = KeyIndustry
    /\ Len(fContent) = 2
    /\ fContent[1] = fContent[2]
    /\ IndustryVal(fContent[1]) = Tongyong
    /\ Len(fOutput) = 2

RECURSIVE IsSubsequence(_, _)
IsSubsequence(sub, seq) ==
    IF sub = <<>> THEN TRUE
    ELSE IF seq = <<>> THEN FALSE
    ELSE \/ Head(sub) = Head(seq) /\ IsSubsequence(Tail(sub), Tail(seq))
         \/ IsSubsequence(sub, Tail(seq))

\* C24: filterContent leaves the input row list and every row of it
\* unchanged, and the rows it returns are a subsequence of the input rows
\* in their original order.
C24_InputUnchanged ==
    [][/\ fContent' = fContent
       /\ fPc' = "done" => IsSubsequence(fOutput', fContent)]_vars

\* C24 witness: of two different rows the first was filtered out and the
\* second returned; the input still holds both.
C24_Witness ==
    /\ fPc = "done"
    /\ Len(fContent) = 2
    /\ fContent[1] # fContent[2]
    /\ fOutput = <<fContent[2]>>

(***************************************************************************)
(* Result page: properties                                                 *)
(***************************************************************************)
\* C11: deduplicateContent is idempotent and non-expanding: applied to its
\* own output it returns that output element by element, and the output is
\* never longer than the input.
C11_IdempotentNonExpanding ==
    dPc = "done" =>
        /\ deduplicateContent(dOutput) = dOutput
        /\ Len(dOutput) <= Len(dContent)

\* C11 witness: a list of three rows of which the call dropped one.
C11_Witness ==
    /\ dPc = "done"
    /\ Len(dContent) = 3
    /\ Len(dOutput) = 2
    /\ dContent[1] = dContent[3]

\* The positions of the rows that no earlier row equals value by value in
\* column order.
FirstOfItsValues(content) ==
    {i \in 1..Len(content) :
        \A j \in 1..(i - 1) : ObjectValues(content[j]) # ObjectValues(content[i])}

\* The rows at the positions of keep, in input order.
RECURSIVE RowsAt(_, _, _)
RowsAt(content, keep, i) ==
    IF i > Len(content) THEN <<>>
    ELSE (IF i \in keep THEN <<content[i]>> ELSE <<>>) \o RowsAt(content, keep, i + 1)

\* C12: the output of deduplicateContent is the input without its later
\* duplicates, in input order, where a row is a duplicate only of an
\* earlier row that equals it value by value in column order: two rows
\* that differ in some column value are never collapsed into one.
C12_OnlyIdenticalRowsCollapse ==
    dPc = "done" =>
        dOutput = RowsAt(dContent, FirstOfItsValues(dContent), 1)

\* The candidates of the n-th generated module, in the order of allSystems.
CandidatesOf(n) == Candidates(gAllSystems, gConfig, gSystemsToExport[n].systemName)

\* Whether a row of a source passes the content filter under gConfig.
PassesFilter(row, source) ==
    \/ Len(gConfig.industries) = 0 /\ Len(gConfig.projectTypes) = 0
    \/ RowRelevant(row, ObjectKeys(source.content[1]), gConfig)

\* The number of rows of content that equal row value by value.
Copies(content, row) ==
    Cardinality({k \in 1..Len(content) : ObjectValues(content[k]) = ObjectValues(row)})

\* C13: when two contributing sources of a selected module each hold a row
\* with identical values that passes the content filter, the generated
\* content of the module holds exactly one such row, and the generated
\* itemCount is the length of the generated (deduplicated) content.
C13_SharedRowKeptOnce ==
    gPc = "done" =>
        \A n \in 1..Len(gSystemsToExport) :
            LET cands == CandidatesOf(n)
                gen   == gSystemsToExport[n]
            IN  /\ gen.itemCount = Len(gen.content)
                /\ \A i \in 1..Len(cands) : \A j \in 1..Len(cands) :
                       i < j =>
                       \A r \in Range(cands[i].content) : \A q \in Range(cands[j].content) :
                           ( /\ ObjectValues(r) = ObjectValues(q)
                             /\ PassesFilter(r, cands[i])
                             /\ PassesFilter(q, cands[j]) )
                           => Copies(gen.content, r) = 1

RECURSIVE SumCounts(_)
SumCounts(sourceCounts) ==
    IF sourceCounts = <<>> THEN 0
    ELSE Head(sourceCounts).count + SumCounts(Tail(sourceCounts))

\* The rows a candidate supplied: its content after its own filtering.
Supplied(c) == SourceContent(c, gConfig)

\* The candidates that supplied at least one row, in order.
Contributors(cands) ==
    FilterByHits(cands, [i \in 1..Len(cands) |-> Len(Supplied(cands[i])) > 0])

\* Some row supplied by one source equals, value by value, a row supplied
\* by another source.
DuplicatedAcrossSources(cands) ==
    \E i \in 1..Len(cands) : \E j \in 1..Len(cands) :
        /\ i < j
        /\ \E r \in Range(Supplied(cands[i])) : \E q \in Range(Supplied(cands[j])) :
               ObjectValues(r) = ObjectValues(q)

\* C14: the source attribution of a generated module lists exactly the
\* candidates that supplied at least one row after their own filtering,
\* each with the number of rows it supplied; the sum of the counts is at
\* least the generated itemCount, and equals it exactly when no row is
\* duplicated across sources.
C14_SourceAttribution ==
    gPc = "done" =>
        \A n \in 1..Len(gSystemsToExport) :
            LET contributors == Contributors(CandidatesOf(n))
                counts       == gSourceCounts[n]
                gen          == gSystemsToExport[n]
            IN  /\ counts = [i \in 1..Len(contributors) |->
                                [name  |-> contributors[i].client,
                                 count |-> Len(Supplied(contributors[i]))]]
                /\ gen.sourceInfo = SourceInfo(counts)
                /\ SumCounts(counts) >= gen.itemCount
                /\ (SumCounts(counts) = gen.itemCount)
                       <=> ~DuplicatedAcrossSources(CandidatesOf(n))

\* The schema of a generated module is that of candidate c: its keys and
\* header where it carries them (else the column names of the first
\* generated row), and the metadata the generated system inherits.
SchemaTakenFrom(gen, c) ==
    LET firstKeys == IF Len(gen.content) > 0 THEN ObjectKeys(gen.content[1]) ELSE <<>>
    IN  /\ gen.keys = (IF c.hasDetail THEN c.keys ELSE firstKeys)
        /\ gen.originalHeader = (IF c.hasDetail THEN c.originalHeader ELSE firstKeys)
        /\ gen.module = c.module
        /\ gen.applicableIndustries = c.applicableIndustries
        /\ gen.applicableProjectTypes = c.applicableProjectTypes
        /\ gen.date = c.date

\* C15 (as stated): the schema of a generated module is taken from the
\* first candidate, in the order of allSystems, that supplied rows to the
\* merged content.
C15_SchemaOfFirstContributor ==
    gPc = "done" =>
        \A n \in 1..Len(gSystemsToExport) :
            LET contributors == Contributors(CandidatesOf(n))
            IN  Len(contributors) > 0 =>
                    SchemaTakenFrom(gSystemsToExport[n], contributors[1])

\* The position of the candidate with the largest itemCount, the earliest
\* one among equals.
LargestFirst(cands) ==
    CHOOSE i \in 1..Len(cands) :
        /\ \A j \in 1..Len(cands) : cands[j].itemCount <= cands[i].itemCount
        /\ \A j \in 1..(i - 1) : cands[j].itemCount < cands[i].itemCount

\* C15 (amended): the schema of a generated module is taken from the
\* candidate of the module with the largest itemCount, the earliest one in
\* the order of allSystems among equals, whether or not it supplied rows.
C15_SchemaOfLargestCandidate ==
    gPc = "done" =>
        \A n \in 1..Len(gSystemsToExport) :
            SchemaTakenFrom(gSystemsToExport[n],
                            CandidatesOf(n)[LargestFirst(CandidatesOf(n))])

\* C15 witness: the first contributor is followed by a larger candidate
\* that supplied no row, and the generated module carries the date of the
\* larger one.
C15_Witness ==
    /\ gPc = "done"
    /\ Len(gAllSystems) = 2
    /\ Len(gSystemsToExport) = 1
    /\ Len(CandidatesOf(1)) = 2
    /\ gAllSystems[1].itemCount < gAllSystems[2].itemCount
    /\ Len(Supplied(gAllSystems[1])) > 0
    /\ Len(Supplied(gAllSystems[2])) = 0
    /\ gAllSystems[1].date # gAllSystems[2].date
    /\ gSystemsToExport[1].date = gAllSystems[2].date

\* The row holds one of the requirement keywords of gConfig in its JSON
\* serialization, case-insensitively.
HoldsKeyword(row) ==
    LET keywords == RequirementKeywords(gConfig.specialRequirements)
    IN  \E k \in 1..Len(keywords) :
            includes(toLowerCase(JsonStringify(row)), toLowerCase(keywords[k]))

\* C25: when config.useAI is set and specialRequirements yields at least
\* one keyword, every row filterSystemContent returns for a source holds
\* one of the keywords, whatever the selection of industries and project
\* types, both empty included.
C25_RequirementKeywordsApplied ==
    (/\ gPc = "done"
     /\ gConfig.useAI
     /\ Len(RequirementKeywords(gConfig.specialRequirements)) > 0) =>
        \A n \in 1..Len(gAllSystems) :
            \A row \in Range(Supplied(gAllSystems[n])) : HoldsKeyword(row)

\* The effective module of a system: its module field, else its
\* systemName when that is a selected module, else none.
EffectiveModuleOf(s) ==
    IF s.module # <<>> THEN s.module
    ELSE IF \E k \in 1..Len(gConfig.modules) : gConfig.modules[k] = s.systemName
         THEN s.systemName
         ELSE <<>>

\* The applicable list is empty or shares a value with the selection.
SharesValue(applicable, selected) ==
    \/ applicable = <<>>
    \/ Range(applicable) \cap Range(selected) # {}

\* The system is to contribute to a generated module under gConfig.
Eligible(s) ==
    /\ EffectiveModuleOf(s) # <<>>
    /\ EffectiveModuleOf(s) \in Range(gConfig.modules)
    /\ SharesValue(s.applicableIndustries, gConfig.industries)
    /\ SharesValue(s.applicableProjectTypes, gConfig.projectTypes)

\* The positions in allSystems of the eligible systems of a module.
EligibleOf(moduleName) ==
    {i \in 1..Len(gAllSystems) :
        Eligible(gAllSystems[i]) /\ EffectiveModuleOf(gAllSystems[i]) = moduleName}

\* The clients named by the n-th generated module's source counts.
CountedClients(n) == {gSourceCounts[n][k].name : k \in 1..Len(gSourceCounts[n])}

\* C26: a system contributes to a generated module exactly when its
\* effective module is selected and each of its applicable lists is empty
\* or shares a value with the selection; a system with a non-empty
\* applicableIndustries is excluded when config.industries is empty, and a
\* module without an applicable system has no generated entry.
C26_ContributesIffApplicable ==
    gPc = "done" =>
        /\ {gSystemsToExport[n].systemName : n \in 1..Len(gSystemsToExport)}
              = {EffectiveModuleOf(gAllSystems[i]) :
                    i \in {j \in 1..Len(gAllSystems) : Eligible(gAllSystems[j])}}
        /\ \A n \in 1..Len(gSystemsToExport) :
              LET eligible == EligibleOf(gSystemsToExport[n].systemName)
              IN  /\ \A m \in 1..Len(gSystemsToExport) :
                        gSystemsToExport[m].systemName = gSystemsToExport[n].systemName
                            => m = n
                  /\ CountedClients(n)
                        = {gAllSystems[i].client :
                              i \in {j \in eligible : Len(Supplied(gAllSystems[j])) > 0}}
                  /\ \A row \in Range(gSystemsToExport[n].content) :
                        \E i \in eligible : row \in Range(Supplied(gAllSystems[i]))
                  /\ \A i \in eligible : \A row \in Range(Supplied(gAllSystems[i])) :
                        \E r \in Range(gSystemsToExport[n].content) :
                            signature(r) = signature(row)
        /\ Len(gConfig.industries) = 0 =>
              \A i \in 1..Len(gAllSystems) :
                  gAllSystems[i].applicableIndustries # <<>> =>
                      \A n \in 1..Len(gSystemsToExport) :
                          gAllSystems[i].client \notin CountedClients(n)

\* C26 witness: a system of a selected module is excluded on the
\* project-type axis and another system of that module contributes.
C26_Witness ==
    /\ gPc = "done"
    /\ Len(gAllSystems) = 2
    /\ gAllSystems[1].applicableProjectTypes # <<>>
    /\ ~Eligible(gAllSystems[1])
    /\ EffectiveModuleOf(gAllSystems[1]) \in Range(gConfig.modules)
    /\ Eligible(gAllSystems[2])
    /\ Len(gSystemsToExport) = 1
    /\ CountedClients(1) = {gAllSystems[2].client}

(***************************************************************************)
(* AIAdvisor: properties                                                   *)
(***************************************************************************)
\* The ways to read text as id, white space, colon, white space, reason:
\* <<i, j, k>> with the id text[1..i], the colon at j and the reason
\* text[k..Len(text)].
Readings(text) ==
    LET ids     == {i \in 1..Len(text) : \A n \in 1..i : text[n] \in IdChars}
        colons  == {j \in 1..Len(text) : text[j] = ":"}
        reasons == {k \in 1..Len(text) :
                       \A n \in k..Len(text) : text[n] \notin LineTerminators}
    IN  {d \in ids \X colons \X reasons :
            /\ d[1] < d[2] /\ d[2] < d[3]
            /\ \A n \in (d[1] + 1)..(d[2] - 1) : text[n] \in Whitespace
            /\ \A n \in (d[2] + 1)..(d[3] - 1) : text[n] \in Whitespace}

\* What a response line contributes according to the pattern
\* ^([A-Z0-9-]+)\s*:\s*(.+)$ : the id, and as reason the text after the
\* colon and the white space that follows it.
ExpectedOfLine(line) ==
    LET text == trim(line)
    IN  IF Readings(text) = {} THEN <<>>
        ELSE LET d == CHOOSE r \in Readings(text) :
                          \A q \in Readings(text) : q[3] <= r[3]
                 id == SubSeq(text, 1, d[1])
             IN  IF \E n \in 1..Len(pStandards) : pStandards[n].standard_id = id
                 THEN <<[standard_id |-> id, source |-> "ai",
                         reason |-> SubSeq(text, d[3], Len(text))]>>
                 ELSE <<>>

RECURSIVE ExpectedOfLines(_)
ExpectedOfLines(lines) ==
    IF lines = <<>> THEN <<>>
    ELSE ExpectedOfLine(Head(lines)) \o ExpectedOfLines(Tail(lines))

\* C17: parseAIResponse returns, in line order, one MatchResult (source
\* 'ai', the reason the text after the colon) for each line that, trimmed,
\* matches the pattern and whose id is a catalog id; every other line
\* contributes nothing.
C17_ParseAIResponse ==
    pPc = "done" =>
        pResults = ExpectedOfLines(SplitChar(pResponse, "\n"))

\* C17 witness: the three lines "QC-001: fits", "NOPE", "QC-999: fits" with
\* a catalog of QC-001 only gave exactly one result, for QC-001.
C17_Witness ==
    /\ pPc = "done"
    /\ pStandards = <<[standard_id |-> QC001]>>
    /\ pResponse = QC001 \o <<":", " ">> \o Fits \o <<"\n", "N", "O", "P", "E", "\n">>
                   \o QC999 \o <<":", " ">> \o Fits
    /\ pResults = <<[standard_id |-> QC001, source |-> "ai", reason |-> Fits]>>

\* The configuration lacks what its model needs: the endpoint and the key
\* of 'openai', the endpoint of 'custom'.
ConfigMissing ==
    \/ aConfig.model = "openai" /\ (aConfig.apiKey = <<>> \/ aConfig.endpoint = <<>>)
    \/ aConfig.model = "custom" /\ aConfig.endpoint = <<>>

\* The request or the reading of its body failed.
RequestFailed == aFetched.fetch = "rejected" \/ aFetched.json = "rejected"

\* The body has the shape its API promises: choices[0].message.content a
\* string for 'openai', response a string for 'custom'.
ExpectedShape ==
    LET data == aFetched.data
    IN  /\ data.type = "object"
        /\ IF aConfig.model = "openai"
           THEN /\ data.hasChoices /\ Len(data.choices) > 0
                /\ data.choices[1].hasMessage
                /\ data.choices[1].content.type = "string"
           ELSE data.response.type = "string"

\* The text of the model's answer.
ResponseText ==
    CASE aConfig.model = "openai" -> aFetched.data.choices[1].content.text
      [] aConfig.model = "custom" -> aFetched.data.response.text
      [] OTHER -> callLocalLLM(generatePrompt(aInput, aSemantics))

\* C16: getRecommendations never rejects; it resolves to the empty list
\* when the advisor is disabled (no request issued), when the endpoint or
\* key its model needs is missing, when the request fails and when the
\* body has not the expected shape, and to the parsed list otherwise.
C16_NeverRejects ==
    /\ aResult.state # "rejected"
    /\ aPc = "done" =>
          /\ aResult.state = "resolved"
          /\ IF ~aConfig.enabled
             THEN aResult.value = <<>> /\ aRequests = <<>>
             ELSE IF ConfigMissing
             THEN aResult.value = <<>> /\ aRequests = <<>>
             ELSE IF aConfig.model # "local" /\ (RequestFailed \/ ~ExpectedShape)
             THEN aResult.value = <<>>
             ELSE aResult.value = parseAIResponse(ResponseText, aStandards)

\* C16 witness: an enabled 'openai' advisor whose request was answered by
\* a body without choices resolved to the empty list.
C16_Witness ==
    /\ aPc = "done"
    /\ aConfig.enabled /\ aConfig.model = "openai"
    /\ Len(aRequests) = 1
    /\ aFetched.json = "fulfilled"
    /\ aFetched.data.type = "object" /\ ~aFetched.data.hasChoices
    /\ aResult = [state |-> "resolved", value |-> <<>>]

\* C18: shouldUseAI returns true exactly when the advisor is enabled and
\* fewer than 5 existing matches are passed in.
C18_ShouldUseAI ==
    aPc # "start" =>
        (aShould <=> (aConfig.enabled /\ Len(aInput.existingStandards) < 5))

\* C18 witness: an enabled advisor refused with exactly 5 existing matches.
C18_Witness ==
    /\ aPc = "asked"
    /\ aConfig.enabled
    /\ Len(aInput.existingStandards) = 5
    /\ ~aShould

\* The ids of a list of MatchResults.
IdsOf(results) == {results[n].standard_id : n \in 1..Len(results)}

\* What getRecommendations of the 'local' model resolves to when the
\* advisor holds the semantic descriptions semantics.
LocalResult(semantics) ==
    parseAIResponse(callLocalLLM(generatePrompt(aInput, semantics)), aStandards)

\* list begins with the elements of prefix.
IsPrefix(prefix, list) ==
    Len(prefix) <= Len(list) /\ SubSeq(list, 1, Len(prefix)) = prefix

\* C19: for the 'local' model, with the profile, catalog and configuration
\* fixed, a change of the semantic descriptions never excludes an id from
\* the returned list; in particular no id of the returned list is missing
\* from the list returned when further descriptions are added.
C19_SemanticsNeverExclude ==
    (aPc = "done" /\ aConfig.enabled /\ aConfig.model = "local") =>
        \A semantics \in SemanticsPool :
            IsPrefix(aSemantics, semantics) =>
                IdsOf(aResult.value) \subseteq IdsOf(LocalResult(semantics))

(***************************************************************************)
(* RuleEngine.getMatchedStandards: properties                              *)
(***************************************************************************)
\* The positions of the results whose id some catalog item carries.
ResolvedPositions ==
    {i \in 1..Len(msResults) :
        \E n \in 1..Len(msStandards) :
            msStandards[n].standard_id = msResults[i].standard_id}

\* The first catalog item of the given id.
FirstOfId(id) ==
    msStandards[CHOOSE n \in 1..Len(msStandards) :
                    /\ msStandards[n].standard_id = id
                    /\ \A m \in 1..(n - 1) : msStandards[m].standard_id # id]

\* C21: getMatchedStandards returns, in input order, one item per result
\* whose standard_id is in the catalog (the catalog item of that id with the
\* result attached as match) and nothing for a result of an unresolved id.
C21_UnresolvedFiltered ==
    msPc = "done" =>
        /\ Len(msReturned) = Cardinality(ResolvedPositions)
        /\ \A i \in ResolvedPositions :
              LET k == Cardinality({j \in ResolvedPositions : j <= i})
                  item == FirstOfId(msResults[i].standard_id)
              IN  /\ msReturned[k].match = msResults[i]
                  /\ msReturned[k].standard_id = item.standard_id
                  /\ msReturned[k].standard_type = item.standard_type
                  /\ ~msReturned[k].isNull

\* C21 witness: a resolved result after an unresolved one; only the
\* resolved one is returned.
C21_Witness ==
    /\ msPc = "done"
    /\ Len(msResults) >= 2
    /\ 1 \notin ResolvedPositions
    /\ 2 \in ResolvedPositions
    /\ Len(msReturned) = 1
    /\ msReturned[1].match = msResults[2]

(***************************************************************************)
(* normalizeString: properties                                             *)
(***************************************************************************)
\* A string in canonical form: no space at either end, no hyphen or
\* underscore, no two consecutive spaces.
Canonical(str) ==
    /\ str # <<>> => Head(str) # " " /\ str[Len(str)] # " "
    /\ \A i \in 1..Len(str) : str[i] \notin {"-", "_"}
    /\ \A i \in 1..(Len(str) - 1) : ~(str[i] = " " /\ str[i + 1] = " ")

\* C22: both normalizers return a canonical form (no leading or trailing
\* space, no hyphen or underscore, no two consecutive spaces), lower-cased
\* unless case-sensitive; normalizing the result again leaves it unchanged;
\* the empty string maps to the empty string.
C22_NormalizerCanonical ==
    nPc = "done" =>
        /\ Canonical(nFilterOut)
        /\ Canonical(nRuleOut)
        /\ ~nOptions.caseSensitive => nFilterOut = toLowerCase(nFilterOut)
        /\ nRuleOut = toLowerCase(nRuleOut)
        /\ normalizeString(nFilterOut, nOptions) = nFilterOut
        /\ RuleNormalizeString(nRuleOut) = nRuleOut
        /\ nStr = <<>> => nFilterOut = <<>> /\ nRuleOut = <<>>

(***************************************************************************)
(* calculateSimilarity: properties                                         *)
(***************************************************************************)
\* The Levenshtein distance by its defining recursion: the cheapest of
\* deleting the head of a, inserting the head of b, and substituting one
\* for the other (free when they are equal).
RECURSIVE Lev(_, _)
Lev(a, b) ==
    IF a = <<>> THEN Len(b)
    ELSE IF b = <<>> THEN Len(a)
    ELSE LET del == Lev(Tail(a), b) + 1
             ins == Lev(a, Tail(b)) + 1
             sub == Lev(Tail(a), Tail(b)) + (IF Head(a) = Head(b) THEN 0 ELSE 1)
         IN  IF del <= ins /\ del <= sub THEN del
             ELSE IF ins <= sub THEN ins ELSE sub

MaxLength == IF Len(sStr1) >= Len(sStr2) THEN Len(sStr1) ELSE Len(sStr2)

\* C23: calculateSimilarity(a, b) = 1 - lev(a, b) / max(|a|, |b|), so
\* lev <= max, the score lies in [0, 1], is 1 exactly when a = b (both
\* empty included) and is symmetric in its arguments.
C23_Similarity ==
    sPc = "done" =>
        /\ sScore.den > 0
        /\ MaxLength > 0 =>
              sScore.num * MaxLength = (MaxLength - Lev(sStr1, sStr2)) * sScore.den
        /\ MaxLength = 0 => sScore.num = sScore.den
        /\ Lev(sStr1, sStr2) <= MaxLength
        /\ 0 <= sScore.num /\ sScore.num <= sScore.den
        /\ sScore.num = sScore.den <=> sStr1 = sStr2
        /\ LET swapped == calculateSimilarity(sStr2, sStr1)
           IN  swapped.num * sScore.den = sScore.num * swapped.den

\* C23 witness: two strings of different lengths that share a character
\* and differ in another; the score lies strictly between 0 and 1.
C23_Witness ==
    /\ sPc = "done"
    /\ Len(sStr1) # Len(sStr2)
    /\ 0 < sScore.num
    /\ sScore.num < sScore.den

(***************************************************************************)
(* Exporter.generateCSVContent: properties                                 *)
(***************************************************************************)
\* The positions of text that lie outside a quoted field: an even number
\* of quotes precedes them.
Unquoted(text) ==
    {n \in 1..Len(text) :
        Cardinality({m \in 1..(n - 1) : text[m] = "\""}) % 2 = 0}

\* The positions of the line feeds that end a line of the CSV text.
LineEnds(text) == {n \in Unquoted(text) : text[n] = "\n"}

\* The numbers of fields of the lines of the CSV text: one more than the
\* commas outside quoted fields between two line ends.
FieldCounts(text) ==
    LET ends == LineEnds(text) \cup {Len(text) + 1}
    IN  {1 + Cardinality({n \in Unquoted(text) :
                             /\ text[n] = ","
                             /\ n < e
                             /\ \A d \in ends : d < e => d < n}) : e \in ends}

\* The number of headers the config asks for.
HeaderCount ==
    8 + (IF cConfig.includeSources THEN 3 ELSE 0)
      + (IF cConfig.includeMetadata THEN 2 ELSE 0)

\* C27: generateCSVContent never throws; it returns the empty string for no
\* items and otherwise a header line followed by one line per item, each
\* with as many fields as there are headers, also when includeSources is
\* set and a match has no rule_id or no reason.
C27_CsvNeverThrows ==
    cPc = "done" =>
        /\ ~cOutput.threw
        /\ cItems = <<>> => cOutput.value.text = <<>>
        /\ cItems # <<>> =>
              /\ Cardinality(LineEnds(cOutput.value.text)) = Len(cItems)
              /\ FieldCounts(cOutput.value.text) = {HeaderCount}

(***************************************************************************)
(* VersionManager: properties                                              *)
(***************************************************************************)
\* The names of the files the remote version lists.
ListedFiles == {vRemote.files[k] : k \in 1..Len(vRemote.files)}

\* The update failed while fetching the remote version or while fetching
\* or writing one of its files.
FailedBeforeVersionWrite ==
    /\ vResult = "false"
    /\ vFailure \in {"fetchVersion", "jsonVersion", "fetchFile", "textFile", "writeFile"}

C29_ResultHasConfig ==
    /\ appView = "result" => ~appConfig.isNull
    /\ appLast = "confirm" =>
          /\ ~appIsConfigOpen
          /\ appView = "result"
          /\ ~appConfig.isNull
    /\ appLast = "back" =>
          /\ appView = "home"
          /\ appConfig = NullConfig

\* C29 witness: a configuration naming a project type was confirmed
\* after the list of systems was loaded.
C29_Witness ==
    /\ appLast = "confirm"
    /\ appView = "result"
    /\ ~appConfig.isNull
    /\ appConfig.projectTypes # <<>>
    /\ ~appIsConfigOpen
    /\ appAllSystems # <<>>

(***************************************************************************)
(* parseSemanticDescriptions: properties                                   *)
(***************************************************************************)
\* What the line at position i is, once trimmed.
IsHeadingAt(i) == HeadingMatch(trim(semLines[i])).matched
SectionAt(i) ==
    IF IsHeadingAt(i) THEN "none"
    ELSE IF trim(semLines[i]) = ApplicableMarker THEN "applicable"
    ELSE IF trim(semLines[i]) = NotRecommendedMarker THEN "not_recommended"
    ELSE "none"
IsBulletAt(i) ==
    /\ ~IsHeadingAt(i)
    /\ SectionAt(i) = "none"
    /\ StartsWithDash(trim(semLines[i]))

\* The last position before i that holds a heading, 0 for none; the last
\* position between that heading and i that holds a section marker, 0
\* for none.
LastBefore(S, i) ==
    IF \E j \in S : j < i THEN CHOOSE j \in S : j < i /\ \A k \in S : k < i => k <= j
    ELSE 0
HeadingOf(i) == LastBefore({j \in 1..Len(semLines) : IsHeadingAt(j)}, i)
MarkerOf(i) ==
    LastBefore({j \in 1..Len(semLines) : SectionAt(j) # "none" /\ j > HeadingOf(i)}, i)

\* The positions 1..Len(semLines), in order.
LinePositions == [i \in 1..Len(semLines) |-> i]

\* The positions of the headings, in file order.
HeadingPositions == SelectSeq(LinePositions, IsHeadingAt)

\* The scenario items under heading h and a marker of the given section,
\* in file order.
ScenariosUnder(h, section) ==
    LET Under(i) == /\ IsBulletAt(i)
                    /\ HeadingOf(i) = h
                    /\ MarkerOf(i) # 0
                    /\ SectionAt(MarkerOf(i)) = section
        kept == SelectSeq(LinePositions, Under)
    IN  [n \in 1..Len(kept) |->
            trim(SubSeq(trim(semLines[kept[n]]), 3, Len(trim(semLines[kept[n]]))))]

\* C30: the output holds one description per heading line, in file order,
\* with the heading's id and text; its scenario lists are the items that
\* follow the heading, before the next one, each under the section marker
\* seen last after the heading; items before any heading, or after a
\* heading with no marker since, are in no list, and a marker seen before a
\* heading does not count for it.
C30_ScenariosUnderLastMarker ==
    semPc = "done" =>
        /\ Len(semOutput) = Len(HeadingPositions)
        /\ \A k \in 1..Len(semOutput) :
              LET h == HeadingPositions[k]
                  idMatch == HeadingMatch(trim(semLines[h]))
              IN  /\ semOutput[k].standard_id = idMatch.id
                  /\ semOutput[k].content = idMatch.text
                  /\ semOutput[k].applicable_scenarios =
                        ScenariosUnder(h, "applicable")
                  /\ semOutput[k].not_recommended_scenarios =
                        ScenariosUnder(h, "not_recommended")

\* C30 witness: a section marker, then a heading, a scenario item with no
\* marker since the heading: the item is dropped.
C30_Witness ==
    /\ semPc = "done"
    /\ Len(semLines) = 4
    /\ SectionAt(1) = "applicable"
    /\ IsHeadingAt(2)
    /\ IsBulletAt(3)
    /\ SectionAt(4) = "not_recommended"
    /\ Len(semOutput) = 1
    /\ semOutput[1].applicable_scenarios = <<>>
    /\ semOutput[1].not_recommended_scenarios = <<>>

====
